---------------------------- MODULE Spec2Model ----------------------------
(***************************************************************************)
(* RepoScan: the scan pipeline (fetcher, analyzers, aggregator, scoring    *)
(* engine) of the three scan-handler variants found in the repository:     *)
(*   "A"  supabase/functions/scan-repo/index.ts   (the deployed handler)   *)
(*   "B"  unnamed/part_009                         (seven analyzers)       *)
(*   "C"  supabase/functions/scan-repo-bundled/index.ts (single file)      *)
(*                                                                         *)
(* Conventions                                                             *)
(*  - JavaScript strings are TLA+ strings; arrays are sequences; null and  *)
(*    undefined are the empty sequence << >> and a present object obj is   *)
(*    the one-element sequence <<obj>>.  A null or empty description is "".*)
(*  - Dates are whole days since an epoch; Date.now() is the variable now. *)
(*  - Sub-scores are points; breakdown totals are kept in hundredths of a  *)
(*    point (the weights are percentages), so that Math.round is exact.    *)
(***************************************************************************)
EXTENDS Integers, Sequences, FiniteSets, TLC

VARIABLES
    \* ---- scoring engine (scoreRepository run on a snapshot) ----
    variant,      \* which handler variant is running: "A", "B" or "C"
    data,         \* the RepositorySnapshot returned by fetchRepoData
    allVulnerabilities, \* the findings of the analyzers, concatenated
    vulnSummary,  \* the vulnerability summary handed to scoreRepository
    quality,      \* the code-quality metrics handed to scoreRepository (B)
    now,          \* the wall clock, Date.now(), in days
    results,      \* the ScoringResults produced so far, with their clock
    \* ---- supply-chain scanner (checkTyposquatting) ----
    manifest,     \* package.json as the scanner meets it
    typoFindings, \* Null before the check ran, then <<the findings it pushed>>
    \* ---- platform-security scanner (scanGitHubSecurity) ----
    platform,     \* the repo metadata, the listing and what GitHub answers
    platVulns,    \* the findings array shared by the sub-checks
    branchPc,     \* where checkBranchProtection stands
    workflowIdx,  \* the workflow checkGitHubActions is fetching, 0 when done
    platPc,       \* scanGitHubSecurity: "idle", "running", "returned", "rejected"
    \* ---- scan handler (Deno.serve); its locals repoData, the findings, the
    \* summary, the metrics and the ScoringResult are data, allVulnerabilities,
    \* vulnSummary, quality and results above ----
    request,      \* the request body and the client address
    github,       \* what the GitHub API and the database answer
    pc,           \* where the handler stands
    target,       \* Null, or <<owner and repoSlug matched in the URL>>
    response,     \* Null, or <<the HTTP response>>
    repo_scans,   \* the rows inserted in table repo_scans
    tasks,        \* the analyzer tasks of the scan: Null, or analyzer -> state
    token_gate_config, \* Null, or <<the row of table token_gate_config>>
    scan_access_log,   \* the rows of table scan_access_log
    accessCheck,  \* Null, or <<the AccessCheckResult of checkAccess>>
    statements,   \* the insert and update statements sent to the database
    fetched,      \* the requests fetchRepoData has sent to GitHub
    \* ---- deep scans (DeepScanService) ----
    deep_scans,   \* the rows of table deep_scans, by id
    \* ---- the token gate under several requests ----
    chain,        \* the token balance of each wallet on the chain
    clients,      \* the checkAccess calls in flight and their answers
    \* ---- token locks (TokenLockService) ----
    token_locks,  \* the rows of table token_locks, by id
    \* ---- extension popup (pollScanStatus) ----
    poll,         \* the interval, its counter and the messages in flight
    \* ---- content fetches and shared result arrays of the analyzers ----
    contentFetches, \* analyzer -> the paths it has requested
    subchecks,    \* Null, or what each sub-check of a scanner has yet to push
    sharedVulns   \* the vulnerabilities array the sub-checks share

scoreVars == <<variant, data, allVulnerabilities, vulnSummary, quality, now, results>>

typoVars == <<manifest, typoFindings>>

platVars == <<platform, platVulns, branchPc, workflowIdx, platPc>>

gateVars == <<token_gate_config, scan_access_log, accessCheck, chain>>

extraVars == <<clients, token_locks, poll, contentFetches, subchecks, sharedVulns>>

scanVars == <<request, github, pc, target, response, repo_scans, tasks, gateVars,
              statements, fetched>>

vars == <<scoreVars, typoVars, platVars, scanVars, deep_scans, extraVars>>

nonScoreVars == <<typoVars, platVars, scanVars, deep_scans, extraVars>>

nonTypoVars == <<scoreVars, platVars, scanVars, deep_scans, extraVars>>

nonPlatVars == <<scoreVars, typoVars, scanVars, deep_scans, extraVars>>

-----------------------------------------------------------------------------
(* JavaScript string and array helpers                                     *)

Null == << >>

Some(arr, P(_)) == \E i \in DOMAIN arr : P(arr[i])

Filter(arr, P(_)) == SelectSeq(arr, P)

Max2(a, b) == IF a >= b THEN a ELSE b

Min2(a, b) == IF a <= b THEN a ELSE b

UpperChars == "ABCDEFGHIJKLMNOPQRSTUVWXYZ"

LowerChars == "abcdefghijklmnopqrstuvwxyz"

CharAt(s, i) == SubSeq(s, i, i)

\* String.prototype.toLowerCase on one character
LowerMap ==
    [c \in {CharAt(UpperChars, i) : i \in 1..26} |->
        CharAt(LowerChars, CHOOSE i \in 1..26 : CharAt(UpperChars, i) = c)]

LowerChar(c) == IF c \in DOMAIN LowerMap THEN LowerMap[c] ELSE c

RECURSIVE ToLower(_)
ToLower(s) ==
    IF Len(s) = 0 THEN ""
    ELSE LowerChar(CharAt(s, 1)) \o ToLower(SubSeq(s, 2, Len(s)))

EndsWith(s, suffix) ==
    /\ Len(s) >= Len(suffix)
    /\ SubSeq(s, Len(s) - Len(suffix) + 1, Len(s)) = suffix

StartsWith(s, prefix) ==
    /\ Len(s) >= Len(prefix)
    /\ SubSeq(s, 1, Len(prefix)) = prefix

Includes(s, part) ==
    \E i \in 1..(Len(s) - Len(part) + 1) : SubSeq(s, i, i + Len(part) - 1) = part

\* Math.log10 on the exact powers of ten (the star counts of the model are
\* all of the form 10^k - 1, so that log10(stars + 1) = k exactly).
RECURSIVE Log10(_)
Log10(n) == IF n < 10 THEN 0 ELSE 1 + Log10(n \div 10)

\* Math.round of a value given in hundredths (round half up).
RoundHundredths(h) == (h + 50) \div 100

-----------------------------------------------------------------------------
(* clamp                                                                   *)

clampMissing(value, min, max) == value

clamp(value, min, max) == Max2(min, Min2(max, value))

\* the result of one sub-score function: the score and the messages it
\* pushed on the shared risk and positive arrays
Sub(score, risks, positives) ==
    [score |-> score, risks |-> risks, positives |-> positives]

When(cond, msg) == IF cond THEN <<msg>> ELSE << >>


-----------------------------------------------------------------------------
(* Safety sub-scores.  A definition without a suffix is the function of    *)
(* scan-repo/index.ts (variant A); _B is unnamed/part_009 and _C is        *)
(* scan-repo-bundled/index.ts where their text differs from variant A.     *)

depFiles == {"package.json", "requirements.txt", "Cargo.toml", "go.mod", "pom.xml", "build.gradle"}

lockFiles == {"package-lock.json", "yarn.lock", "pnpm-lock.yaml", "Cargo.lock", "go.sum", "poetry.lock", "Pipfile.lock"}

scoreDependencyRisks(contents) ==
    LET hasDeps == Some(contents, LAMBDA f : f.name \in depFiles)
        hasLock == Some(contents, LAMBDA f : f.name \in lockFiles)
        s1 == IF hasDeps THEN 50 + 30 ELSE 50 - 20
        s2 == IF hasLock THEN s1 + 20 ELSE IF hasDeps THEN s1 - 10 ELSE s1
    IN  Sub(clamp(s2, 0, 100),
            When(~hasDeps, "No standard dependency files detected")
              \o When(~hasLock /\ hasDeps, "Missing lock file - dependencies not pinned"),
            When(hasDeps, "Has dependency management files")
              \o When(hasLock, "Uses lock files for reproducible builds"))

dangerousExts == <<
    [ext |-> ".exe", penalty |-> 30, msg |-> "Contains Windows executables (.exe)"],
    [ext |-> ".dll", penalty |-> 25, msg |-> "Contains DLL files"],
    [ext |-> ".so", penalty |-> 20, msg |-> "Contains shared object files (.so)"],
    [ext |-> ".dylib", penalty |-> 20, msg |-> "Contains dynamic libraries (.dylib)"],
    [ext |-> ".bin", penalty |-> 25, msg |-> "Contains binary files (.bin)"] >>

\* the loop over dangerousExts: the penalties and the messages of the
\* extensions from index i on that some file of the listing ends with
RECURSIVE dangerousFound(_, _)
dangerousFound(contents, i) ==
    IF i > Len(dangerousExts) THEN [penalty |-> 0, risks |-> << >>]
    ELSE LET d == dangerousExts[i]
             rest == dangerousFound(contents, i + 1)
         IN  IF Some(contents, LAMBDA f : EndsWith(ToLower(f.name), d.ext))
             THEN [penalty |-> d.penalty + rest.penalty, risks |-> <<d.msg>> \o rest.risks]
             ELSE rest

scriptExts == {".sh", ".bat", ".cmd", ".ps1"}

scoreCodeSecurity(contents, repo) ==
    LET found == dangerousFound(contents, 1)
        hasSecurity == Some(contents, LAMBDA f : ToLower(f.name) = "security.md")
        scriptFiles == Filter(contents, LAMBDA f : \E ext \in scriptExts : EndsWith(f.name, ext))
        s1 == 70 - found.penalty
        s2 == IF hasSecurity THEN s1 + 20 ELSE s1
        s3 == IF Len(scriptFiles) > 10 THEN s2 - 15 ELSE s2
    IN  Sub(clamp(s3, 0, 100),
            found.risks
              \o When(Len(scriptFiles) > 10,
                      "High number of script files (" \o ToString(Len(scriptFiles)) \o ")"),
            When(hasSecurity, "Has SECURITY.md policy"))

scoreCodeSecurity_C(contents, repo) ==
    LET found == dangerousFound(contents, 1)
        hasSecurity == Some(contents, LAMBDA f : ToLower(f.name) = "security.md")
        s1 == 70 - found.penalty
        s2 == IF hasSecurity THEN s1 + 20 ELSE s1
    IN  Sub(clamp(s2, 0, 100), found.risks, When(hasSecurity, "Has SECURITY.md policy"))

scoreConfigHygiene(contents) ==
    LET hasGitignore == Some(contents, LAMBDA f : f.name = ".gitignore")
        hasEnvExample == Some(contents, LAMBDA f : f.name \in {".env.example", ".env.sample", "env.example"})
        hasEnv == Some(contents, LAMBDA f : f.name = ".env")
        dockerFiles == Filter(contents, LAMBDA f : Includes(ToLower(f.name), "dockerfile"))
        s1 == IF hasGitignore THEN 50 + 30 ELSE 50 - 20
        s2 == IF hasEnvExample THEN s1 + 20 ELSE s1
        s3 == IF hasEnv THEN s2 - 40 ELSE s2
        s4 == IF Len(dockerFiles) > 0 THEN s3 + 10 ELSE s3
    IN  Sub(clamp(s4, 0, 100),
            When(~hasGitignore, "Missing .gitignore file")
              \o When(hasEnv, "WARNING: .env file committed (may expose secrets)"),
            When(hasGitignore, "Has .gitignore file")
              \o When(hasEnvExample, "Provides environment variable template")
              \o When(Len(dockerFiles) > 0, "Has Dockerfile for containerization"))

scoreConfigHygiene_C(contents) ==
    LET hasGitignore == Some(contents, LAMBDA f : f.name = ".gitignore")
        hasEnv == Some(contents, LAMBDA f : f.name = ".env")
        s1 == IF hasGitignore THEN 50 + 30 ELSE 50 - 20
        s2 == IF hasEnv THEN s1 - 40 ELSE s1
    IN  Sub(clamp(s2, 0, 100),
            When(~hasGitignore, "Missing .gitignore file")
              \o When(hasEnv, "WARNING: .env file committed (may expose secrets)"),
            When(hasGitignore, "Has .gitignore file"))

testIndicators == {"test", "spec", "__tests__", ".test.", ".spec."}

scoreCodeQuality(contents, repo) ==
    LET hasReadme == Some(contents, LAMBDA f : Includes(ToLower(f.name), "readme"))
        hasTests == Some(contents, LAMBDA f : \E t \in testIndicators : Includes(ToLower(f.name), t))
        hasLicense == repo.license # Null
        s1 == IF hasReadme THEN 40 + 30 ELSE 40 - 20
        s2 == IF hasTests THEN s1 + 20 ELSE s1
        s3 == IF hasLicense THEN s2 + 10 ELSE s2 - 10
    IN  Sub(clamp(s3, 0, 100),
            When(~hasReadme, "Missing README file")
              \o When(~hasTests, "No test files detected")
              \o When(~hasLicense, "No license specified"),
            When(hasReadme, "Has README documentation")
              \o When(hasTests, "Includes test files")
              \o (IF hasLicense THEN <<"Licensed: " \o repo.license[1].name>> ELSE << >>))

scoreCodeQuality_C(contents, repo) ==
    LET hasReadme == Some(contents, LAMBDA f : Includes(ToLower(f.name), "readme"))
        hasTests == Some(contents, LAMBDA f : \E t \in testIndicators : Includes(ToLower(f.name), t))
        hasLicense == repo.license # Null
        s1 == IF hasReadme THEN 40 + 30 ELSE 40 - 20
        s2 == IF hasTests THEN s1 + 20 ELSE s1
        s3 == IF hasLicense THEN s2 + 10 ELSE s2 - 10
    IN  Sub(clamp(s3, 0, 100),
            When(~hasReadme, "Missing README file")
              \o When(~hasLicense, "No license specified"),
            When(hasReadme, "Has README documentation")
              \o When(hasTests, "Includes test files")
              \o (IF hasLicense THEN <<"Licensed: " \o repo.license[1].name>> ELSE << >>))

\* (Date.now() - new Date(date).getTime()) / (1000 * 60 * 60 * 24)
daysSince(clock, date) == clock - date

uniqueAuthors(commits) == Cardinality({commits[i].email : i \in DOMAIN commits})

scoreMaintenancePostureArchivedIgnored(commits, repo, clock) ==
    IF Len(commits) > 0
    THEN LET recentCommits == Filter(commits, LAMBDA c : daysSince(clock, c.date) <= 90)
             newest == daysSince(clock, commits[1].date)
             s1 == IF Len(recentCommits) >= 5 THEN 20 + 40
                   ELSE IF Len(recentCommits) > 0 THEN 20 + 20 ELSE 20
             s2 == IF newest < 30 THEN s1 + 30
                   ELSE IF newest > 365 THEN s1 - 20 ELSE s1
             s3 == IF uniqueAuthors(commits) >= 3 THEN s2 + 10 ELSE s2
         IN  Sub(clamp(s3, 0, 100), << >>, << >>)
    ELSE Sub(clamp(20, 0, 100), <<"No commit history available">>, << >>)

scoreMaintenancePosture(commits, repo, clock) ==
    IF repo.archived
    THEN Sub(0, <<"Repository is archived (no longer maintained)">>, << >>)
    ELSE IF Len(commits) > 0
    THEN LET recentCommits == Filter(commits, LAMBDA c : daysSince(clock, c.date) <= 90)
             newest == daysSince(clock, commits[1].date)
             s1 == IF Len(recentCommits) >= 5 THEN 20 + 40
                   ELSE IF Len(recentCommits) > 0 THEN 20 + 20 ELSE 20
             s2 == IF newest < 30 THEN s1 + 30
                   ELSE IF newest > 365 THEN s1 - 20 ELSE s1
             s3 == IF uniqueAuthors(commits) >= 3 THEN s2 + 10 ELSE s2
         IN  Sub(clamp(s3, 0, 100),
                 When(newest >= 30 /\ newest > 365, "No commits in over a year"),
                 When(Len(recentCommits) >= 5, "Active development (5+ commits in 90 days)")
                   \o When(newest < 30, "Recently updated (last 30 days)")
                   \o When(uniqueAuthors(commits) >= 3,
                           "Multiple contributors (" \o ToString(uniqueAuthors(commits)) \o ")"))
    ELSE Sub(clamp(20, 0, 100), <<"No commit history available">>, << >>)

scoreMaintenancePosture_B(commits, repo, clock) ==
    IF repo.archived
    THEN Sub(0, <<"Repository is archived (no longer maintained)">>, << >>)
    ELSE LET hasCommits == Len(commits) > 0
             recentCommits == Filter(commits, LAMBDA c : daysSince(clock, c.date) <= 90)
             newest == daysSince(clock, commits[1].date)
             s1 == IF ~hasCommits THEN 20
                   ELSE IF Len(recentCommits) >= 5 THEN 20 + 40
                   ELSE IF Len(recentCommits) > 0 THEN 20 + 20 ELSE 20
             s2 == IF ~hasCommits THEN s1
                   ELSE IF newest < 30 THEN s1 + 30
                   ELSE IF newest > 365 THEN s1 - 20 ELSE s1
             s3 == IF hasCommits /\ uniqueAuthors(commits) >= 3 THEN s2 + 10 ELSE s2
             s4 == IF repo.has_issues /\ ~repo.disabled THEN s3 + 5 ELSE s3
         IN  Sub(clamp(s4, 0, 100),
                 IF hasCommits /\ newest >= 30 /\ newest > 365
                 THEN <<"No commits in over a year">> ELSE << >>,
                 IF hasCommits
                 THEN When(Len(recentCommits) >= 5, "Active development (5+ commits in 90 days)")
                        \o When(newest < 30, "Recently updated (last 30 days)")
                        \o When(uniqueAuthors(commits) >= 3,
                                "Multiple contributors (" \o ToString(uniqueAuthors(commits)) \o ")")
                 ELSE << >>)

scoreMaintenancePosture_C(commits, repo, clock) ==
    IF repo.archived
    THEN Sub(0, <<"Repository is archived (no longer maintained)">>, << >>)
    ELSE IF Len(commits) > 0
    THEN LET recentCommits == Filter(commits, LAMBDA c : daysSince(clock, c.date) <= 90)
             newest == daysSince(clock, commits[1].date)
             s1 == IF Len(recentCommits) >= 5 THEN 20 + 40
                   ELSE IF Len(recentCommits) > 0 THEN 20 + 20 ELSE 20
             s2 == IF newest < 30 THEN s1 + 30
                   ELSE IF newest > 365 THEN s1 - 20 ELSE s1
         IN  Sub(clamp(s2, 0, 100),
                 When(newest >= 30 /\ newest > 365, "No commits in over a year"),
                 When(Len(recentCommits) >= 5, "Active development (5+ commits in 90 days)")
                   \o When(newest < 30, "Recently updated (last 30 days)"))
    ELSE Sub(clamp(20, 0, 100), << >>, << >>)

\* the five sub-score results of a breakdown, in call order, with the
\* weights (percent) of the total
Breakdown(subs, weights) ==
    [total |-> weights[1] * subs[1].score + weights[2] * subs[2].score
               + weights[3] * subs[3].score + weights[4] * subs[4].score
               + weights[5] * subs[5].score,
     scores |-> <<subs[1].score, subs[2].score, subs[3].score, subs[4].score, subs[5].score>>,
     risks |-> subs[1].risks \o subs[2].risks \o subs[3].risks \o subs[4].risks \o subs[5].risks,
     positives |-> subs[1].positives \o subs[2].positives \o subs[3].positives
                   \o subs[4].positives \o subs[5].positives]

\* scores[1..5] of a safety breakdown: dependency_risks, code_security,
\* config_hygiene, code_quality, maintenance_posture
safetyWeights == <<30, 30, 15, 15, 10>>

calculateSafety(d, clock) ==
    Breakdown(<<scoreDependencyRisks(d.contents),
                scoreCodeSecurity(d.contents, d.repo[1]),
                scoreConfigHygiene(d.contents),
                scoreCodeQuality(d.contents, d.repo[1]),
                scoreMaintenancePosture(d.commits, d.repo[1], clock)>>, safetyWeights)

calculateSafety_B(d, clock) ==
    Breakdown(<<scoreDependencyRisks(d.contents),
                scoreCodeSecurity(d.contents, d.repo[1]),
                scoreConfigHygiene(d.contents),
                scoreCodeQuality(d.contents, d.repo[1]),
                scoreMaintenancePosture_B(d.commits, d.repo[1], clock)>>, safetyWeights)

calculateSafety_C(d, clock) ==
    Breakdown(<<scoreDependencyRisks(d.contents),
                scoreCodeSecurity_C(d.contents, d.repo[1]),
                scoreConfigHygiene_C(d.contents),
                scoreCodeQuality_C(d.contents, d.repo[1]),
                scoreMaintenancePosture_C(d.commits, d.repo[1], clock)>>, safetyWeights)

-----------------------------------------------------------------------------
(* Legitimacy sub-scores of scan-repo/index.ts (variant A)                 *)

lockFilesWorking == {"package-lock.json", "yarn.lock", "pnpm-lock.yaml", "Cargo.lock", "go.sum", "poetry.lock"}

exampleDirs == {"examples", "example", "demo", "demos", "samples"}

ciFiles == {".github", ".gitlab-ci.yml", ".travis.yml", "azure-pipelines.yml", ".circleci"}

scoreWorkingEvidence(contents, repo, commits) ==
    LET hasLock == Some(contents, LAMBDA f : f.name \in lockFilesWorking)
        hasDocker == Some(contents, LAMBDA f : Includes(ToLower(f.name), "dockerfile"))
        hasExamples == Some(contents, LAMBDA f : \E d \in exampleDirs : Includes(ToLower(f.name), d))
        hasCI == Some(contents, LAMBDA f : \E ci \in ciFiles : Includes(f.name, ci))
        s1 == IF hasLock THEN 30 + 20 ELSE 30
        s2 == IF hasDocker THEN s1 + 15 ELSE s1
        s3 == IF hasExamples THEN s2 + 20 ELSE s2
        s4 == IF hasCI THEN s3 + 15 ELSE s3
    IN  Sub(clamp(s4, 0, 100),
            When(~hasLock, "No lock file - build may not be reproducible")
              \o When(~hasExamples, "No example code found"),
            When(hasLock, "Reproducible environment with lock files")
              \o When(hasDocker, "Has Dockerfile for containerized builds")
              \o When(hasExamples, "Includes example code/demos")
              \o When(hasCI, "Has CI/CD configuration"))

scoreTransparency(contents, repo) ==
    LET hasReadme == Some(contents, LAMBDA f : Includes(ToLower(f.name), "readme"))
        detailed == repo.description # "" /\ Len(repo.description) > 30
        minimal == ~detailed /\ (repo.description = "" \/ Len(repo.description) < 10)
        hasContributing == Some(contents, LAMBDA f : ToLower(f.name) = "contributing.md")
        hasChangelog == Some(contents, LAMBDA f : Includes(ToLower(f.name), "changelog"))
        s1 == IF hasReadme THEN 20 + 35 ELSE 20 - 20
        s2 == IF detailed THEN s1 + 20 ELSE s1
        s3 == IF hasContributing THEN s2 + 15 ELSE s2
        s4 == IF hasChangelog THEN s3 + 10 ELSE s3
    IN  Sub(clamp(s4, 0, 100),
            When(~hasReadme, "No README found")
              \o When(minimal, "Missing or minimal description"),
            When(detailed, "Has detailed description")
              \o When(hasContributing, "Has CONTRIBUTING.md guidelines")
              \o When(hasChangelog, "Maintains a changelog"))

scoreCommunity(repo, contributors) ==
    LET stars == repo.stargazers_count
        forks == repo.forks_count
        starScore == Min2((Log10(stars + 1) * 100) \div 4, 100)
        s1 == 20 + (starScore * 40) \div 100
        s2 == IF Len(contributors) > 5 THEN s1 + 25
              ELSE IF Len(contributors) = 1 THEN s1 + 5 ELSE s1 + 15
        s3 == IF forks > 50 THEN s2 + 15 ELSE s2
    IN  Sub(clamp(s3, 0, 100),
            When(stars <= 100 /\ stars < 5, "Very low star count")
              \o When(Len(contributors) = 1, "Single contributor project"),
            (IF stars > 1000 THEN <<"Highly popular: " \o ToString(stars) \o " stars">>
             ELSE IF stars > 100 THEN <<"Popular: " \o ToString(stars) \o " stars">> ELSE << >>)
              \o When(Len(contributors) > 5, ToString(Len(contributors)) \o "+ contributors")
              \o When(forks > 50, ToString(forks) \o " forks"))

scoreAuthorReputation(owner, repo, clock) ==
    IF owner = Null THEN Sub(30, << >>, << >>)
    ELSE LET o == owner[1]
             accountAge == daysSince(clock, o.created_at)
             s1 == IF o.type = "Organization" THEN 40 + 30 ELSE 40
             s2 == IF accountAge > 730 THEN s1 + 20
                   ELSE IF accountAge < 90 THEN s1 - 10 ELSE s1 + 10
             s3 == IF o.public_repos > 5 THEN s2 + 10 ELSE s2
         IN  Sub(clamp(s3, 0, 100),
                 When(accountAge <= 730 /\ accountAge < 90, "Relatively new account")
                   \o When(o.public_repos <= 5 /\ o.public_repos = 1, "Only one public repository"),
                 When(o.type = "Organization", "Owned by an organization")
                   \o When(accountAge > 730, "Well-established account (2+ years)")
                   \o When(o.public_repos > 5, ToString(o.public_repos) \o " public repositories"))

popularLicenses == {"MIT", "Apache", "GPL", "BSD", "ISC", "Mozilla"}

scoreLicenseCompliance(repo) ==
    IF repo.license = Null
    THEN Sub(30, <<"No license - unclear usage rights">>, << >>)
    ELSE LET name == repo.license[1].name
             isPopular == \E l \in popularLicenses : Includes(name, l)
             s1 == IF isPopular THEN 70 + 30 ELSE 70 + 10
         IN  Sub(clamp(s1, 0, 100), << >>, <<"Licensed: " \o name>>)

\* scores[1..5] of a legitimacy breakdown: working_evidence,
\* transparency_docs, community_signals, author_reputation,
\* license_compliance
legitimacyWeights == <<40, 20, 15, 15, 10>>

calculateLegitimacy(d, clock) ==
    Breakdown(<<scoreWorkingEvidence(d.contents, d.repo[1], d.commits),
                scoreTransparency(d.contents, d.repo[1]),
                scoreCommunity(d.repo[1], d.contributors),
                scoreAuthorReputation(d.owner, d.repo[1], clock),
                scoreLicenseCompliance(d.repo[1])>>, legitimacyWeights)

-----------------------------------------------------------------------------
(* Legitimacy sub-scores of unnamed/part_009 (variant B) and of            *)
(* scan-repo-bundled/index.ts (variant C)                                  *)

srcDirs == {"src", "lib", "app", "core", "components"}

mainFiles == {"index.js", "index.ts", "main.py", "main.rs", "main.go", "app.js", "server.js"}

scoreWorkingEvidence_B(contents, commits) ==
    LET hasSrcDir == Some(contents, LAMBDA f : f.type = "dir" /\ ToLower(f.name) \in srcDirs)
        hasMain == Some(contents, LAMBDA f : ToLower(f.name) \in mainFiles)
        s1 == IF hasSrcDir THEN 30 + 30 ELSE 30
        s2 == IF hasMain THEN s1 + 20 ELSE s1
        s3 == IF Len(commits) >= 10 THEN s2 + 20
              ELSE IF Len(commits) < 3 THEN s2 - 20 ELSE s2
    IN  Sub(clamp(s3, 0, 100),
            When(Len(commits) < 10 /\ Len(commits) < 3, "Very few commits - may be incomplete"),
            When(hasSrcDir, "Has organized source code structure")
              \o When(hasMain, "Has entry point file")
              \o When(Len(commits) >= 10, "Has substantial commit history"))

scoreWorkingEvidence_C(contents, commits) ==
    LET hasSrcDir == Some(contents, LAMBDA f : f.type = "dir" /\ ToLower(f.name) \in srcDirs)
        s1 == IF hasSrcDir THEN 30 + 30 ELSE 30
        s2 == IF Len(commits) >= 10 THEN s1 + 20
              ELSE IF Len(commits) < 3 THEN s1 - 20 ELSE s1
    IN  Sub(clamp(s2, 0, 100),
            When(Len(commits) < 10 /\ Len(commits) < 3, "Very few commits - may be incomplete"),
            When(hasSrcDir, "Has organized source code structure")
              \o When(Len(commits) >= 10, "Has substantial commit history"))

scoreTransparency_B(contents, repo) ==
    LET hasReadme == Some(contents, LAMBDA f : StartsWith(ToLower(f.name), "readme"))
        hasChangelog == Some(contents, LAMBDA f : Includes(ToLower(f.name), "changelog")
                                                   \/ Includes(ToLower(f.name), "history"))
        hasContributing == Some(contents, LAMBDA f : Includes(ToLower(f.name), "contributing"))
        described == repo.description # "" /\ Len(repo.description) > 10
        s1 == IF hasReadme THEN 30 + 30 ELSE 30 - 30
        s2 == IF hasChangelog THEN s1 + 15 ELSE s1
        s3 == IF hasContributing THEN s2 + 10 ELSE s2
        s4 == IF described THEN s3 + 15 ELSE s3 - 10
    IN  Sub(clamp(s4, 0, 100),
            When(~hasReadme, "No README documentation")
              \o When(~described, "No repository description"),
            When(hasChangelog, "Maintains changelog")
              \o When(hasContributing, "Has contribution guidelines"))

scoreTransparency_C(contents, repo) ==
    LET hasReadme == Some(contents, LAMBDA f : StartsWith(ToLower(f.name), "readme"))
        described == repo.description # "" /\ Len(repo.description) > 10
        s1 == IF hasReadme THEN 30 + 30 ELSE 30 - 30
        s2 == IF described THEN s1 + 15 ELSE s1 - 10
    IN  Sub(clamp(s2, 0, 100),
            When(~hasReadme, "No README documentation")
              \o When(~described, "No repository description"),
            << >>)

starsMessage(repo) ==
    IF repo.stargazers_count > 1000
    THEN <<"Highly starred (" \o ToString(repo.stargazers_count) \o " stars)">>
    ELSE IF repo.stargazers_count > 100
    THEN <<"Well-received (" \o ToString(repo.stargazers_count) \o " stars)">>
    ELSE << >>

scoreCommunitySignals_B(repo) ==
    LET s1 == IF repo.stargazers_count > 1000 THEN 40
              ELSE IF repo.stargazers_count > 100 THEN 30
              ELSE IF repo.stargazers_count > 10 THEN 15 ELSE 5
        s2 == IF repo.forks_count > 50 THEN s1 + 20
              ELSE IF repo.forks_count > 10 THEN s1 + 10 ELSE s1
        s3 == IF repo.watchers_count > 20 THEN s2 + 15
              ELSE IF repo.watchers_count > 5 THEN s2 + 8 ELSE s2
        s4 == IF repo.open_issues_count > 0 /\ repo.open_issues_count < 50 THEN s3 + 10
              ELSE IF repo.open_issues_count >= 50 THEN s3 + 5 ELSE s3
        s5 == IF repo.has_discussions THEN s4 + 5 ELSE s4
    IN  Sub(clamp(s5, 0, 100),
            When(repo.open_issues_count >= 50,
                 "High number of open issues (" \o ToString(repo.open_issues_count) \o ")")
              \o When(repo.stargazers_count = 0 /\ repo.forks_count = 0,
                      "No community engagement (0 stars, 0 forks)"),
            starsMessage(repo)
              \o When(repo.forks_count > 50,
                      "Active community (" \o ToString(repo.forks_count) \o " forks)"))

scoreCommunitySignals_C(repo) ==
    LET s1 == IF repo.stargazers_count > 1000 THEN 40
              ELSE IF repo.stargazers_count > 100 THEN 30
              ELSE IF repo.stargazers_count > 10 THEN 15 ELSE 5
        s2 == IF repo.forks_count > 50 THEN s1 + 20
              ELSE IF repo.forks_count > 10 THEN s1 + 10 ELSE s1
    IN  Sub(clamp(s2, 0, 100),
            When(repo.stargazers_count = 0 /\ repo.forks_count = 0,
                 "No community engagement (0 stars, 0 forks)"),
            starsMessage(repo)
              \o When(repo.forks_count > 50,
                      "Active community (" \o ToString(repo.forks_count) \o " forks)"))

\* accountAgeYears > 3 and accountAgeYears < 0.25, with the age in days
\* and a year of 365 days
olderThan3Years(days) == days > 3 * 365

youngerThanQuarterYear(days) == 4 * days < 365

\* the block guarded by "if (owner)" of variant C, which variant B extends
\* with the company/blog bonus
ownerPart(o, clock, withCompany) ==
    LET age == daysSince(clock, o.created_at)
        s1 == IF o.public_repos > 20 THEN 20 + 25
              ELSE IF o.public_repos > 5 THEN 20 + 15 ELSE 20
        s2 == IF o.followers > 100 THEN s1 + 20
              ELSE IF o.followers > 20 THEN s1 + 10 ELSE s1
        s3 == IF olderThan3Years(age) THEN s2 + 15
              ELSE IF youngerThanQuarterYear(age) THEN s2 - 15 ELSE s2
        s4 == IF withCompany /\ (o.company # "" \/ o.blog # "") THEN s3 + 10 ELSE s3
    IN  Sub(s4,
            When(~olderThan3Years(age) /\ youngerThanQuarterYear(age), "Very new GitHub account"),
            When(o.public_repos > 20, "Author has substantial GitHub presence")
              \o When(o.followers > 100,
                      "Author has strong reputation (" \o ToString(o.followers) \o " followers)")
              \o When(olderThan3Years(age), "Established GitHub account"))

scoreAuthorReputation_B(owner, contributors, clock) ==
    LET part == IF owner # Null THEN ownerPart(owner[1], clock, TRUE) ELSE Sub(20, << >>, << >>)
        many == Len(contributors) > 5
        s == IF many THEN part.score + 10 ELSE part.score
    IN  Sub(clamp(s, 0, 100), part.risks, part.positives \o When(many, "Multiple contributors"))

scoreAuthorReputation_C(owner, contributors, clock) ==
    LET part == IF owner # Null THEN ownerPart(owner[1], clock, FALSE) ELSE Sub(20, << >>, << >>)
    IN  Sub(clamp(part.score, 0, 100), part.risks, part.positives)

scoreLicenseCompliance_B(repo) ==
    IF repo.license # Null
    THEN LET licenseName == ToLower(repo.license[1].name)
         IN  IF Includes(licenseName, "mit") \/ Includes(licenseName, "apache")
                \/ Includes(licenseName, "bsd")
             THEN Sub(clamp(100, 0, 100), << >>, <<"Permissive license: " \o repo.license[1].name>>)
             ELSE IF Includes(licenseName, "gpl")
             THEN Sub(clamp(70, 0, 100), << >>, <<"Open source license: " \o repo.license[1].name>>)
             ELSE Sub(clamp(50, 0, 100), << >>, << >>)
    ELSE Sub(clamp(30, 0, 100), <<"No license specified">>, << >>)

legitimacyWeights_B == <<25, 20, 25, 20, 10>>

calculateLegitimacy_B(d, clock) ==
    Breakdown(<<scoreWorkingEvidence_B(d.contents, d.commits),
                scoreTransparency_B(d.contents, d.repo[1]),
                scoreCommunitySignals_B(d.repo[1]),
                scoreAuthorReputation_B(d.owner, d.contributors, clock),
                scoreLicenseCompliance_B(d.repo[1])>>, legitimacyWeights_B)

legitimacyWeights_C == <<25, 20, 25, 20, 10>>

calculateLegitimacy_C(d, clock) ==
    Breakdown(<<scoreWorkingEvidence_C(d.contents, d.commits),
                scoreTransparency_C(d.contents, d.repo[1]),
                scoreCommunitySignals_C(d.repo[1]),
                scoreAuthorReputation_C(d.owner, d.contributors, clock),
                scoreLicenseCompliance_B(d.repo[1])>>, legitimacyWeights_C)

-----------------------------------------------------------------------------
(* scoreRepository                                                         *)

\* Math.round(0.45 * safety_score + 0.55 * legitimacy_score)
overallSwapped(safety_score, legitimacy_score) ==
    RoundHundredths(55 * safety_score + 45 * legitimacy_score)

overallScore(safety_score, legitimacy_score) ==
    RoundHundredths(45 * safety_score + 55 * legitimacy_score)

\* confidence of variant A, in hundredths (0.6 * dataQuality + 0.4 *
\* scoreConfidence, toFixed(2)); the totals are in hundredths of a point
calculateConfidence(d, safety, legitimacy) ==
    LET signalsSuccessful ==
            (IF d.repo # Null THEN 1 ELSE 0)
            + (IF Len(d.contents) > 0 THEN 1 ELSE 0)
            + (IF Len(d.commits) > 0 THEN 1 ELSE 0)
            + 1
            + (IF d.owner # Null THEN 1 ELSE 0)
        signalsAttempted == 5
        scoreConfidence == IF safety.total + legitimacy.total > 2 * 3000 THEN 80 ELSE 50
    IN  (60 * signalsSuccessful) \div signalsAttempted + (40 * scoreConfidence) \div 100

\* confidence of variants B and C, a percentage
calculateConfidence_B(d) ==
    clamp(70 + (IF Len(d.commits) >= 20 THEN 10 ELSE 0)
             + (IF d.repo[1].stargazers_count > 50 THEN 10 ELSE 0)
             + (IF Len(d.contributors) > 3 THEN 5 ELSE 0)
             + (IF Some(d.contents, LAMBDA f : Includes(ToLower(f.name), "test")) THEN 5 ELSE 0),
          0, 100)

calculateConfidence_C(d) ==
    clamp(70 + (IF Len(d.commits) >= 20 THEN 10 ELSE 0)
             + (IF d.repo[1].stargazers_count > 50 THEN 10 ELSE 0)
             + (IF Len(d.contributors) > 3 THEN 5 ELSE 0),
          0, 100)

safetyBreakdown(b) ==
    [total |-> b.total, dependency_risks |-> b.scores[1], code_security |-> b.scores[2],
     config_hygiene |-> b.scores[3], code_quality |-> b.scores[4],
     maintenance_posture |-> b.scores[5]]

legitimacyBreakdown(b) ==
    [total |-> b.total, working_evidence |-> b.scores[1], transparency_docs |-> b.scores[2],
     community_signals |-> b.scores[3], author_reputation |-> b.scores[4],
     license_compliance |-> b.scores[5]]

vulnerabilityRisks(summary) ==
    When(summary.critical_count > 0,
         "CRITICAL: " \o ToString(summary.critical_count) \o " critical vulnerabilities found")
      \o When(summary.high_count > 0,
              ToString(summary.high_count) \o " high-severity vulnerabilities found")

\* the ScoringResult from the two breakdowns; riskFactors is the content of
\* the risk array before calculateSafety runs and moreRisks what is pushed
\* after calculateConfidence
ScoringResult(safety, legitimacy, confidence, riskFactors, moreRisks, vulnerabilities, summary, metrics) ==
    LET safety_score == RoundHundredths(safety.total)
        legitimacy_score == RoundHundredths(legitimacy.total)
    IN  [safety_score |-> safety_score,
         legitimacy_score |-> legitimacy_score,
         overall_score |-> overallScore(safety_score, legitimacy_score),
         confidence |-> confidence,
         breakdown |-> [safety |-> safetyBreakdown(safety),
                        legitimacy |-> legitimacyBreakdown(legitimacy)],
         notes |-> << >>,
         risk_factors |-> riskFactors \o safety.risks \o legitimacy.risks \o moreRisks,
         positive_indicators |-> safety.positives \o legitimacy.positives,
         vulnerabilities |-> vulnerabilities,
         vulnerability_summary |-> summary,
         code_quality_metrics |-> metrics]

scoreRepository(d, vulnerabilities, summary, clock) ==
    LET safety == calculateSafety(d, clock)
        legitimacy == calculateLegitimacy(d, clock)
    IN  ScoringResult(safety, legitimacy, calculateConfidence(d, safety, legitimacy),
                      vulnerabilityRisks(summary), << >>, vulnerabilities, summary, Null)

\* riskFactors.push for the code-quality metrics: the low score and the
\* first three issues
qualityRisks(metrics) ==
    When(metrics.quality_score < 50, "Low code quality score: " \o ToString(metrics.quality_score))
      \o [i \in 1..Min2(3, Len(metrics.issues)) |-> "Quality: " \o metrics.issues[i]]

scoreRepository_B(d, vulnerabilities, summary, metrics, clock) ==
    LET safety == calculateSafety_B(d, clock)
        legitimacy == calculateLegitimacy_B(d, clock)
    IN  ScoringResult(safety, legitimacy, calculateConfidence_B(d),
                      vulnerabilityRisks(summary), qualityRisks(metrics), vulnerabilities,
                      summary, <<metrics>>)

\* lines 73-109 of the bundled handler, which scores inline
scoreRepository_C(d, vulnerabilities, summary, metrics, clock) ==
    LET safety == calculateSafety_C(d, clock)
        legitimacy == calculateLegitimacy_C(d, clock)
    IN  ScoringResult(safety, legitimacy, calculateConfidence_C(d),
                      << >>, << >>, vulnerabilities, summary, <<metrics>>)

scoreVariant(v, d, vulnerabilities, summary, metrics, clock) ==
    CASE v = "A" -> scoreRepository(d, vulnerabilities, summary, clock)
      [] v = "B" -> scoreRepository_B(d, vulnerabilities, summary, metrics, clock)
      [] v = "C" -> scoreRepository_C(d, vulnerabilities, summary, metrics, clock)

-----------------------------------------------------------------------------
(* Findings and the vulnerability aggregator                               *)

Vulnerability(severity, type, description, location, details) ==
    [severity |-> severity, type |-> type, description |-> description,
     location |-> location, details |-> details]

Count(arr, P(_)) == Cardinality({i \in DOMAIN arr : P(arr[i])})

vulnerabilitySummaryLowUncounted(vulnerabilities) ==
    [total_count |-> Len(vulnerabilities),
     critical_count |-> Count(vulnerabilities, LAMBDA v : v.severity = "critical"),
     high_count |-> Count(vulnerabilities, LAMBDA v : v.severity = "high"),
     medium_count |-> Count(vulnerabilities, LAMBDA v : v.severity = "medium"),
     low_count |-> 0,
     by_type |-> [dependency |-> Count(vulnerabilities, LAMBDA v : v.type = "dependency"),
                  code_pattern |-> Count(vulnerabilities, LAMBDA v : v.type = "code_pattern"),
                  configuration |-> Count(vulnerabilities, LAMBDA v : v.type = "configuration")]]

\* the summary the bundled handler computes inline: counts per severity and
\* per type
vulnerabilitySummary_C(vulnerabilities) ==
    [total_count |-> Len(vulnerabilities),
     critical_count |-> Count(vulnerabilities, LAMBDA v : v.severity = "critical"),
     high_count |-> Count(vulnerabilities, LAMBDA v : v.severity = "high"),
     medium_count |-> Count(vulnerabilities, LAMBDA v : v.severity = "medium"),
     low_count |-> Count(vulnerabilities, LAMBDA v : v.severity = "low"),
     by_type |-> [dependency |-> Count(vulnerabilities, LAMBDA v : v.type = "dependency"),
                  code_pattern |-> Count(vulnerabilities, LAMBDA v : v.type = "code_pattern"),
                  configuration |-> Count(vulnerabilities, LAMBDA v : v.type = "configuration")]]

\* calculateVulnerabilitySummary of vulnerabilityScanner.ts, a file that is
\* not in the repository snapshot: counting per severity and per type, as the
\* specification of the aggregator describes it
calculateVulnerabilitySummary(vulnerabilities) == vulnerabilitySummary_C(vulnerabilities)

-----------------------------------------------------------------------------
(* The inputs of the scoring engine: file listings, commit lists, repo     *)
(* metadata, owner profiles and the two clock readings of the model        *)

File(name, type, size) == [name |-> name, path |-> name, type |-> type, size |-> size]

\* two readings of Date.now(), a hundred days apart
ClockReadings == <<2000, 2100>>

Clock1 == ClockReadings[1]

Clock2 == ClockReadings[2]

ScoreFiles == {
    File("package.json", "file", 900), File("yarn.lock", "file", 40000),
    File(".gitignore", "file", 50), File(".env", "file", 120),
    File(".env.example", "file", 80), File("README.md", "file", 3000),
    File("docs-readme.txt", "file", 300), File("Dockerfile", "file", 400),
    File("SECURITY.md", "file", 700), File("CONTRIBUTING.md", "file", 900),
    File("CHANGELOG.md", "file", 1500), File("HISTORY.txt", "file", 1500),
    File("tests", "dir", 0), File("examples", "dir", 0), File(".github", "dir", 0),
    File("src", "dir", 0), File("index.ts", "file", 2500),
    File("setup.exe", "file", 700000), File("Hook.DLL", "file", 90000),
    File("core.so", "file", 60000), File("data.bin", "file", 10000),
    File("run.sh", "file", 200) }

NodeProject == <<
    File("package.json", "file", 900), File("yarn.lock", "file", 40000),
    File(".gitignore", "file", 50), File(".env.example", "file", 80),
    File("README.md", "file", 3000), File("Dockerfile", "file", 400),
    File("SECURITY.md", "file", 700), File("CONTRIBUTING.md", "file", 900),
    File("CHANGELOG.md", "file", 1500), File("tests", "dir", 0),
    File("examples", "dir", 0), File(".github", "dir", 0), File("src", "dir", 0),
    File("index.ts", "file", 2500) >>

ScriptPack == [i \in 1..11 |-> File("step" \o ToString(i) \o ".sh", "file", 200)]

BinaryDrop == <<
    File("setup.exe", "file", 700000), File("Hook.DLL", "file", 90000),
    File("core.so", "file", 60000), File("inject.dylib", "file", 60000),
    File("data.bin", "file", 10000), File(".env", "file", 120) >> \o ScriptPack

ScoreListings == {<< >>, NodeProject, BinaryDrop} \cup {<<f>> : f \in ScoreFiles}

Commit(date, email) == [date |-> date, email |-> email]

\* newest first, as the commits endpoint returns them
Abandoned == <<Commit(1000, "a@x.org")>>

Hobby == <<Commit(1990, "a@x.org"), Commit(1950, "a@x.org")>>

Active == <<Commit(1995, "a@x.org"), Commit(1994, "b@x.org"), Commit(1992, "c@x.org"),
            Commit(1990, "a@x.org"), Commit(1985, "b@x.org"), Commit(1980, "a@x.org")>>

Veteran == Active \o [i \in 1..14 |-> Commit(1900 - 60 * i, "a@x.org")]

CommitLists == {<< >>, Abandoned, Hobby, Active, Veteran}

Licenses == {Null, <<[name |-> "MIT License"]>>, <<[name |-> "GNU General Public License v3.0"]>>,
             <<[name |-> "Custom License"]>>}

Contributor(i) == [login |-> "user" \o ToString(i)]

\* the community part of the repo metadata together with the contributor
\* list of the same repository
Communities == {
    [stargazers_count |-> 0, forks_count |-> 0, watchers_count |-> 0, open_issues_count |-> 0,
     has_discussions |-> FALSE, has_issues |-> FALSE, description |-> "",
     contributors |-> <<Contributor(1)>>],
    [stargazers_count |-> 99, forks_count |-> 12, watchers_count |-> 9, open_issues_count |-> 7,
     has_discussions |-> FALSE, has_issues |-> TRUE, description |-> "A small parser",
     contributors |-> [i \in 1..4 |-> Contributor(i)]],
    [stargazers_count |-> 9999, forks_count |-> 800, watchers_count |-> 300,
     open_issues_count |-> 120, has_discussions |-> TRUE, has_issues |-> TRUE,
     description |-> "A fast, batteries-included web framework",
     contributors |-> [i \in 1..10 |-> Contributor(i)]] }

NoSecurityAnalysis == Null

Repo(archived, license, c, saa) ==
    [archived |-> archived, disabled |-> FALSE, license |-> license,
     description |-> c.description, stargazers_count |-> c.stargazers_count,
     forks_count |-> c.forks_count, watchers_count |-> c.watchers_count,
     open_issues_count |-> c.open_issues_count, has_discussions |-> c.has_discussions,
     has_issues |-> c.has_issues, security_and_analysis |-> saa]

Owners == {
    Null,
    <<[type |-> "User", created_at |-> 1950, public_repos |-> 1, followers |-> 0,
       company |-> "", blog |-> ""]>>,
    <<[type |-> "User", created_at |-> 1200, public_repos |-> 6, followers |-> 30,
       company |-> "", blog |-> "https://example.org"]>>,
    <<[type |-> "Organization", created_at |-> 500, public_repos |-> 30, followers |-> 200,
       company |-> "Example Inc", blog |-> ""]>> }

Metrics(files, score, issues) ==
    [total_files_analyzed |-> files, avg_file_size |-> 0, avg_complexity |-> 0,
     code_duplication_risk |-> 0, comment_ratio |-> 0, large_files_count |-> 0,
     quality_score |-> score, issues |-> issues]

\* what the analyzers hand to the scoring engine: the findings, their
\* summary and the code-quality metrics
SampleFindings == <<
    Vulnerability("critical", "configuration",
                  "Environment file (.env) committed to repository", ".env",
                  "This file may contain sensitive credentials"),
    Vulnerability("critical", "code_pattern", "Potential hardcoded API key", "index.ts:3",
                  "Hardcoded credentials should be moved to environment variables"),
    Vulnerability("high", "code_pattern", "Use of eval() detected", "index.ts:10",
                  "eval() can execute arbitrary code"),
    Vulnerability("low", "dependency", "High dependency count: 120 packages", "package.json",
                  "Large dependency trees increase attack surface. Consider reducing dependencies") >>

AnalysisOutcomes == {
    [vulnerabilities |-> << >>, summary |-> calculateVulnerabilitySummary(<< >>),
     metrics |-> Metrics(4, 80, << >>)],
    [vulnerabilities |-> SampleFindings,
     summary |-> calculateVulnerabilitySummary(SampleFindings),
     metrics |-> Metrics(9, 35, <<"High average cyclomatic complexity: 21", "Low comment ratio: 1.0%",
                                  "7 files exceed 50KB", "Large average file size: 41.0KB">>)] }

Snapshot(repo, contents, commits, contributors, owner) ==
    [repo |-> repo, contents |-> contents, commits |-> commits,
     contributors |-> contributors, owner |-> owner]

Variants == {"A", "B", "C"}

-----------------------------------------------------------------------------
(* The scoring engine run on one snapshot, possibly more than once         *)

MaxScorings == 2

\* the snapshots scored: every listing, every combination of commit list,
\* owner and community, every combination of license and archived flag, and
\* an archived repository with every commit list
MitLicense == <<[name |-> "MIT License"]>>

ScoreSnapshots ==
    {Snapshot(<<Repo(FALSE, Null, c, NoSecurityAnalysis)>>, contents, commits,
              c.contributors, Null) :
        contents \in ScoreListings, commits \in {<< >>, Active}, c \in Communities}
    \cup
    {Snapshot(<<Repo(FALSE, MitLicense, c, NoSecurityAnalysis)>>, contents, commits,
              c.contributors, owner) :
        contents \in {NodeProject, BinaryDrop}, commits \in CommitLists,
        c \in Communities, owner \in Owners}
    \cup
    {Snapshot(<<Repo(archived, license, c, NoSecurityAnalysis)>>, contents, Veteran,
              c.contributors, Null) :
        contents \in {NodeProject, BinaryDrop}, c \in Communities,
        archived \in BOOLEAN, license \in Licenses}
    \cup
    {Snapshot(<<Repo(TRUE, MitLicense, c, NoSecurityAnalysis)>>, NodeProject,
              commits, c.contributors, Null) :
        commits \in CommitLists \cup {<< >>},
        c \in {x \in Communities : x.stargazers_count = 99}}

\* the variables of the other components while the scoring engine runs alone
IdleTypo == manifest = Null /\ typoFindings = Null

IdlePlatform ==
    /\ platform = Null /\ platVulns = << >> /\ branchPc = "idle"
    /\ workflowIdx = 0 /\ platPc = "idle"

IdleScan ==
    /\ request = Null /\ github = Null /\ pc = "idle" /\ target = Null
    /\ response = Null /\ repo_scans = << >> /\ tasks = Null
    /\ token_gate_config = Null /\ scan_access_log = << >> /\ accessCheck = Null
    /\ chain = Null
    /\ statements = << >> /\ fetched = {}

IdleDeepScans == deep_scans = << >>

IdleExtra ==
    /\ clients = << >> /\ token_locks = << >> /\ poll = Null
    /\ contentFetches = Null /\ subchecks = Null /\ sharedVulns = << >>

InitScore ==
    /\ IdleDeepScans /\ IdleExtra
    /\ IdleTypo /\ IdlePlatform /\ IdleScan
    /\ variant \in Variants
    /\ data \in ScoreSnapshots
    /\ \E a \in AnalysisOutcomes :
           /\ allVulnerabilities = a.vulnerabilities
           /\ vulnSummary = a.summary
           /\ quality = a.metrics
    /\ now = Clock1
    /\ results = << >>

\* scoreRepository is called on the snapshot at the current clock reading
Score ==
    /\ Len(results) < MaxScorings
    /\ results' = Append(results,
                         [at |-> now,
                          result |-> scoreVariant(variant, data, allVulnerabilities,
                                                  vulnSummary, quality, now)])
    /\ UNCHANGED <<variant, data, allVulnerabilities, vulnSummary, quality, now, nonScoreVars>>

\* time passes
Tick ==
    /\ now = Clock1
    /\ now' = Clock2
    /\ UNCHANGED <<variant, data, allVulnerabilities, vulnSummary, quality, results,
                   nonScoreVars>>

NextScore == Score \/ Tick

SpecScore == InitScore /\ [][NextScore]_vars

-----------------------------------------------------------------------------
(* Properties of the scoring engine                                        *)

InRange(x) == 0 <= x /\ x <= 100

SubScores(r) ==
    {r.breakdown.safety.dependency_risks, r.breakdown.safety.code_security,
     r.breakdown.safety.config_hygiene, r.breakdown.safety.code_quality,
     r.breakdown.safety.maintenance_posture,
     r.breakdown.legitimacy.working_evidence, r.breakdown.legitimacy.transparency_docs,
     r.breakdown.legitimacy.community_signals, r.breakdown.legitimacy.author_reputation,
     r.breakdown.legitimacy.license_compliance}

ScoresInRange(r) ==
    /\ \A x \in SubScores(r) : InRange(x)
    /\ 0 <= r.breakdown.safety.total /\ r.breakdown.safety.total <= 100 * 100
    /\ 0 <= r.breakdown.legitimacy.total /\ r.breakdown.legitimacy.total <= 100 * 100
    /\ InRange(r.safety_score) /\ InRange(r.legitimacy_score) /\ InRange(r.overall_score)

\* C1: in every scoring-engine variant and for every snapshot, each of the
\* ten sub-scores, both breakdown totals, safety_score, legitimacy_score and
\* overall_score of a scoring result lies in [0,100] (the totals are kept in
\* hundredths, so in [0,10000]).
C1_ScoresInRange == \A i \in DOMAIN results : ScoresInRange(results[i].result)

\* a result where clamp cut a sub-score at both ends: the binaries drive
\* code_security below 0 and a popular license reaches 100
C1_Witness ==
    \E i \in DOMAIN results :
        /\ results[i].result.breakdown.safety.code_security = 0
        /\ results[i].result.breakdown.legitimacy.license_compliance = 100
        /\ Len(data.contents) > 5

\* C2: the overall_score of every scoring result is
\* Math.round(0.45 * safety_score + 0.55 * legitimacy_score) of the scores in
\* the same result: it is the integer o with o - 0.5 <= value < o + 0.5.
C2_OverallIsWeightedRound ==
    \A i \in DOMAIN results :
        LET r == results[i].result
            weighted == 45 * r.safety_score + 55 * r.legitimacy_score
        IN  /\ 100 * r.overall_score - 50 <= weighted
            /\ weighted < 100 * r.overall_score + 50

\* a result whose two scores differ and whose weighted sum is exactly half
\* way between two integers, so that the rounding direction shows
C2_Witness ==
    \E i \in DOMAIN results :
        LET r == results[i].result IN
        /\ r.safety_score # r.legitimacy_score
        /\ (45 * r.safety_score + 55 * r.legitimacy_score) % 100 = 50
        /\ variant = "C"

\* C10 (as claimed): in every variant the legitimacy total is 0.40 x
\* working_evidence + 0.20 x transparency + 0.15 x community + 0.15 x
\* author_reputation + 0.10 x license of the sub-scores of the same breakdown
\* (both sides in hundredths).
C10_LegitimacyWeights ==
    \A i \in DOMAIN results :
        LET l == results[i].result.breakdown.legitimacy IN
        l.total = 40 * l.working_evidence + 20 * l.transparency_docs
                  + 15 * l.community_signals + 15 * l.author_reputation
                  + 10 * l.license_compliance

\* C8 (as claimed): scoring the same snapshot and findings twice, also at
\* two different wall-clock times, yields identical ScoringResults.
C8_SameResultAtAnyTime ==
    \A i, j \in DOMAIN results : results[i].result = results[j].result

-----------------------------------------------------------------------------
(* Supply-chain scanner: checkTyposquatting and levenshteinDistance        *)
(* (supabase/functions/_shared/supplyChainScanner.ts)                      *)

Min3(a, b, c) == Min2(a, Min2(b, c))

\* the inner loop of levenshteinDistance: row i of the matrix, filled column
\* by column from the row above; column j is kept at index j + 1
RECURSIVE matrixRow(_, _, _, _)
matrixRow(above, row, a, bChar) ==
    LET j == Len(row) IN
    IF j > Len(a) THEN row
    ELSE LET cell == IF bChar = CharAt(a, j) THEN above[j]
                     ELSE Min3(above[j] + 1, row[j] + 1, above[j + 1] + 1)
         IN  matrixRow(above, Append(row, cell), a, bChar)

\* the outer loop: rows 1 .. b.length
RECURSIVE matrixRows(_, _, _, _)
matrixRows(above, i, a, b) ==
    IF i > Len(b) THEN above
    ELSE matrixRows(matrixRow(above, <<i>>, a, CharAt(b, i)), i + 1, a, b)

levenshteinDistance(a, b) ==
    matrixRows([j \in 1..(Len(a) + 1) |-> j - 1], 1, a, b)[Len(a) + 1]

\* popularPackages: each legitimate name with its list of variants, in the
\* order of the object literal
popularPackages == <<
    [legit |-> "react",      variants |-> <<"react", "reactjs", "react-js", "react.js">>],
    [legit |-> "lodash",     variants |-> <<"lodash", "lodash-es", "lodash.js", "loadash">>],
    [legit |-> "axios",      variants |-> <<"axios", "axois", "axiom">>],
    [legit |-> "express",    variants |-> <<"express", "expresss", "exress">>],
    [legit |-> "webpack",    variants |-> <<"webpack", "webpak", "web-pack">>],
    [legit |-> "typescript", variants |-> <<"typescript", "typscript", "type-script">>] >>

isSuspiciousOfItself(depNameLower, legit, variants) ==
    \E k \in DOMAIN variants :
        LET v == variants[k] IN
        /\ v # legit
        /\ depNameLower # v
        /\ levenshteinDistance(depNameLower, v) <= 1

\* the callback of variants.some(...)
isSuspicious(depNameLower, legit, variants) ==
    \E k \in DOMAIN variants :
        LET v == variants[k] IN
        /\ v # legit
        /\ depNameLower # legit
        /\ depNameLower # v
        /\ levenshteinDistance(depNameLower, v) <= 1

Digits == "0123456789"

IsLower(c) == Includes(LowerChars, c)

IsScopeChar(c) == Includes(LowerChars, c) \/ Includes(Digits, c) \/ c = "-"

AllChars(s, P(_)) == \A i \in 1..Len(s) : P(CharAt(s, i))

\* a non-empty run of the class followed by the literal suffix, to the end
ClassThenSuffix(s, P(_), suffix) ==
    /\ Len(s) > Len(suffix)
    /\ EndsWith(s, suffix)
    /\ AllChars(SubSeq(s, 1, Len(s) - Len(suffix)), P)

\* /^@[a-z0-9-]+\/[a-z0-9-]+-official$/ and /^@types\/[a-z]+-types$/
ScopedMatch(s, scopeOk(_), P(_), suffix) ==
    \E i \in 3..Len(s) :
        /\ CharAt(s, 1) = "@"
        /\ CharAt(s, i) = "/"
        /\ scopeOk(SubSeq(s, 2, i - 1))
        /\ ClassThenSuffix(SubSeq(s, i + 1, Len(s)), P, suffix)

IsScope(scope) == AllChars(scope, IsScopeChar)

IsTypesScope(scope) == scope = "types"

suspiciousPatterns(depName) ==
    \/ ScopedMatch(depName, IsScope, IsScopeChar, "-official")
    \/ ClassThenSuffix(depName, IsLower, "-util")
    \/ ClassThenSuffix(depName, IsLower, "-utils")
    \/ ClassThenSuffix(depName, IsLower, "-helper")
    \/ ScopedMatch(depName, IsTypesScope, IsLower, "-types")

\* the first popular package the dependency is suspiciously close to (the
\* inner for-loop breaks at the first hit), or 0
firstLookalike(depNameLower) ==
    LET hits == {p \in DOMAIN popularPackages :
                    isSuspicious(depNameLower, popularPackages[p].legit,
                                 popularPackages[p].variants)}
    IN  IF hits = {} THEN 0 ELSE CHOOSE p \in hits : \A q \in hits : p <= q

\* the body of the loop over Object.entries(allDeps) for one dependency
typosquattingOf(depName) ==
    LET p == firstLookalike(ToLower(depName)) IN
    When(p # 0,
         Vulnerability("critical", "dependency",
                       "Potential typosquatting: " \o depName \o " looks similar to "
                           \o popularPackages[p].legit,
                       "package.json",
                       "This package name is suspiciously similar to a popular package"))
    \o
    When(suspiciousPatterns(depName),
         Vulnerability("medium", "dependency",
                       "Suspicious package naming pattern: " \o depName,
                       "package.json",
                       "Package name follows common typosquatting patterns"))

RECURSIVE typosquattingOfAll(_)
typosquattingOfAll(allDeps) ==
    IF allDeps = << >> THEN << >>
    ELSE typosquattingOf(allDeps[1]) \o typosquattingOfAll(Tail(allDeps))

\* a parsed package.json: the keys of dependencies, devDependencies and
\* peerDependencies in order, the dependencies whose version starts with
\* "github:", and the license (Null when absent)
Package(dependencies, devDependencies, peerDependencies, githubDeps, license) ==
    [dependencies |-> dependencies, devDependencies |-> devDependencies,
     peerDependencies |-> peerDependencies, githubDeps |-> githubDeps, license |-> license]

\* { ...(pkg.dependencies || {}), ...(pkg.devDependencies || {}) }: the keys
\* of dependencies, then the keys of devDependencies not seen before
allDepsOf(pkg) ==
    pkg.dependencies \o
    SelectSeq(pkg.devDependencies,
              LAMBDA n : \A i \in DOMAIN pkg.dependencies : pkg.dependencies[i] # n)

\* checkTyposquatting: nothing without a package.json entry, nothing when its
\* content cannot be fetched, nothing when JSON.parse throws (caught)
checkTyposquatting(m) ==
    IF ~m.listed THEN << >>
    ELSE IF m.content = Null THEN << >>
    ELSE IF m.content[1].parsed = Null THEN << >>
    ELSE typosquattingOfAll(allDepsOf(m.content[1].parsed[1]))

-----------------------------------------------------------------------------
(* checkTyposquatting run on one package.json                              *)

MaxDeps == 2

MaxDevDeps == 1

DependencyNames ==
    {"typescrpt", "typescript", "typscript", "typscrip", "reactj", "Loadash",
     "axio", "left-pad", "string-utils", "@acme/auth-official"}

DevDependencyNames == {"typescrpt", "@types/node-types"}

\* the key lists of a JSON object: sequences without repetition
RECURSIVE KeyLists(_, _)
KeyLists(names, n) ==
    IF n = 0 THEN {<< >>}
    ELSE LET shorter == KeyLists(names, n - 1) IN
         shorter \cup {Append(ks, k) : ks \in {s \in shorter : Len(s) = n - 1}, k \in names}

NoRepeat(ks) == \A i, j \in DOMAIN ks : i # j => ks[i] # ks[j]

PackageJsons ==
    {Package(ds, dd, << >>, {}, Null) :
        ds \in {ks \in KeyLists(DependencyNames, MaxDeps) : NoRepeat(ks)},
        dd \in {ks \in KeyLists(DevDependencyNames, MaxDevDeps) : NoRepeat(ks)}}
    \cup
    {Package(ds, << >>, << >>, {}, Null) :
        ds \in {<<popularPackages[p].legit>> : p \in DOMAIN popularPackages}
               \cup {<<popularPackages[p].legit, "typscrip">> : p \in DOMAIN popularPackages}}

\* package.json as the scanner meets it: not in the listing; listed but its
\* content cannot be fetched; fetched but not JSON; fetched and parsed
Manifests ==
    {[listed |-> FALSE, content |-> Null],
     [listed |-> TRUE, content |-> Null],
     [listed |-> TRUE, content |-> <<[parsed |-> Null]>>]}
    \cup {[listed |-> TRUE, content |-> <<[parsed |-> <<pkg>>]>>] : pkg \in PackageJsons}

IdleScore ==
    /\ variant = "A" /\ data = Null /\ allVulnerabilities = << >>
    /\ vulnSummary = Null /\ quality = Null
    /\ now = Clock1 /\ results = << >>

InitTypo ==
    /\ IdleDeepScans /\ IdleExtra
    /\ IdleScore /\ IdlePlatform /\ IdleScan
    /\ manifest \in Manifests
    /\ typoFindings = Null

CheckTyposquatting ==
    /\ typoFindings = Null
    /\ typoFindings' = <<checkTyposquatting(manifest)>>
    /\ UNCHANGED <<manifest, nonTypoVars>>

NextTypo == CheckTyposquatting

SpecTypo == InitTypo /\ [][NextTypo]_vars

\* the dependencies the scanner iterated over, once the check has run on a
\* package.json that could be fetched and parsed
CheckedDeps ==
    IF /\ typoFindings # Null /\ manifest.listed /\ manifest.content # Null
       /\ manifest.content[1].parsed # Null
    THEN LET all == allDepsOf(manifest.content[1].parsed[1]) IN {all[i] : i \in DOMAIN all}
    ELSE {}

FlaggedAsSimilar(depName, legit) ==
    \E i \in DOMAIN typoFindings[1] :
        /\ typoFindings[1][i].severity = "critical"
        /\ typoFindings[1][i].description =
               "Potential typosquatting: " \o depName \o " looks similar to " \o legit

\* C3 (as claimed): every dependency whose name is at edit distance exactly 1
\* from a popular package name gets a typosquatting finding naming that
\* package; in particular typescrpt is flagged as similar to typescript.
C3_DistanceOneFlagged ==
    \A depName \in CheckedDeps : \A p \in DOMAIN popularPackages :
        levenshteinDistance(depName, popularPackages[p].legit) = 1
            => FlaggedAsSimilar(depName, popularPackages[p].legit)

-----------------------------------------------------------------------------
(* Platform-security scanner: scanGitHubSecurity (unnamed/part_007).       *)
(* Its four sub-checks share one findings array.  A regular expression     *)
(* tested on a workflow file is modelled by the content saying which of    *)
(* the patterns it matches.                                                 *)

\* x?.status of a feature object of security_and_analysis
statusOf(feature) == IF feature = Null THEN Null ELSE feature[1].status

notEnabledLoose(status) == status = <<"disabled">>

\* status !== 'enabled'
notEnabled(status) == status # <<"enabled">>

\* checkRepoSettings: the findings it pushes (it never awaits)
checkRepoSettings(repo) ==
    IF repo.security_and_analysis = Null THEN << >>
    ELSE LET saa == repo.security_and_analysis[1] IN
         When(notEnabled(statusOf(saa.secret_scanning)),
              Vulnerability("medium", "configuration", "GitHub secret scanning not enabled",
                            "GitHub Settings",
                            "Enable secret scanning to detect committed secrets"))
         \o
         When(notEnabled(statusOf(saa.dependabot_security_updates)),
              Vulnerability("medium", "configuration", "Dependabot security updates not enabled",
                            "GitHub Settings",
                            "Enable Dependabot to automatically fix security vulnerabilities"))

\* checkBranchProtection, the body of `if (response.ok)` for the main branch
mainBranchFindings(branch) ==
    IF ~branch.protected
    THEN <<Vulnerability("medium", "configuration", "Main branch is not protected",
                         "GitHub Settings",
                         "Enable branch protection to prevent force pushes and require reviews")>>
    ELSE When(branch.protection = Null \/ ~branch.protection[1].required_pull_request_reviews,
              Vulnerability("low", "configuration", "No required pull request reviews",
                            "GitHub Settings", "Require code reviews before merging to main"))

\* checkBranchProtection, the body of `if (masterResponse?.ok)` in the catch block
masterBranchFindings(branch) ==
    When(~branch.protected,
         Vulnerability("medium", "configuration", "Master branch is not protected",
                       "GitHub Settings",
                       "Enable branch protection to prevent force pushes and require reviews"))

\* checkGitHubActions: contents.filter(f => f.path && f.path.includes('.github/workflows/'))
workflowFilesOf(contents) ==
    Filter(contents, LAMBDA f : f.path # "" /\ Includes(f.path, ".github/workflows/"))

unsafeContexts == <<
    "github.event.issue.title", "github.event.issue.body",
    "github.event.pull_request.title", "github.event.pull_request.body",
    "github.event.comment.body", "github.head_ref" >>

\* the loop over unsafeContexts, from the k-th context on
RECURSIVE unsafeContextFindings(_, _, _)
unsafeContextFindings(path, matches, k) ==
    IF k > Len(unsafeContexts) THEN << >>
    ELSE When(unsafeContexts[k] \in matches,
              Vulnerability("critical", "configuration",
                            "Script injection risk using " \o unsafeContexts[k], path,
                            "User-controlled data in run commands can lead to code injection"))
         \o unsafeContextFindings(path, matches, k + 1)

\* the findings of one workflow file whose content was fetched; matches is
\* the set of regular expressions of the function the content matches
workflowFindings(path, matches) ==
    When("actions/checkout@v[12]" \in matches,
         Vulnerability("medium", "configuration", "Outdated actions/checkout version", path,
                       "Update to actions/checkout@v3 or later for security improvements"))
    \o When("uses:.*@master" \in matches,
            Vulnerability("medium", "configuration", "GitHub Action pinned to @master branch", path,
                          "Pin actions to specific commit SHA or version tag"))
    \o When("secrets.*>>" \in matches,
            Vulnerability("critical", "configuration",
                          "Secret potentially written to file in workflow", path,
                          "Never write secrets to files or logs"))
    \o When("run:.*curl.*|bash" \in matches,
            Vulnerability("high", "configuration", "Piping curl to bash in GitHub Actions", path,
                          "Downloading and executing scripts is dangerous. Use verified actions instead"))
    \o When("on: push" \in matches /\ "branches:" \notin matches,
            Vulnerability("low", "configuration", "Workflow triggers on all pushes", path,
                          "Consider limiting workflow triggers to specific branches"))
    \o unsafeContextFindings(path, matches, 1)

\* ---- scanGitHubSecurity as a process: the call runs every sub-check up to
\* its first await; the continuations run as the responses arrive

\* Promise.all over the sub-checks: rejected as soon as one of them rejects,
\* fulfilled when all have returned
settle(bpc, wf) ==
    IF bpc = "rejected" THEN "rejected"
    ELSE IF bpc = "done" /\ wf = 0 THEN "returned"
    ELSE "running"

\* scanGitHubSecurity is called: checkBranchProtection issues the fetch of
\* branches/main, checkSecurityPolicy returns, checkGitHubActions filters the
\* listing and fetches the first workflow, checkRepoSettings pushes its findings
ScanGitHubSecurity ==
    /\ platPc = "idle"
    /\ branchPc' = "fetch_main"
    /\ workflowIdx' = IF Len(workflowFilesOf(platform.contents)) = 0 THEN 0 ELSE 1
    /\ platVulns' = checkRepoSettings(platform.repo)
    /\ platPc' = "running"
    /\ UNCHANGED <<platform, nonPlatVars>>

\* the fetch of branches/main settles
MainFetched ==
    /\ branchPc = "fetch_main"
    /\ branchPc' = CASE platform.main.outcome = "network_error" -> "fetch_master"
                      [] platform.main.outcome = "not_ok" -> "done"
                      [] platform.main.outcome = "ok" -> "json_main"
    /\ platPc' = IF platPc = "running" THEN settle(branchPc', workflowIdx) ELSE platPc
    /\ UNCHANGED <<platform, platVulns, workflowIdx, nonPlatVars>>

\* response.json() of branches/main settles; a body that is not JSON throws
\* inside the try block and the catch block fetches branches/master
MainParsed ==
    /\ branchPc = "json_main"
    /\ IF platform.main.body = Null
       THEN branchPc' = "fetch_master" /\ platVulns' = platVulns
       ELSE branchPc' = "done"
            /\ platVulns' = platVulns \o mainBranchFindings(platform.main.body[1])
    /\ platPc' = IF platPc = "running" THEN settle(branchPc', workflowIdx) ELSE platPc
    /\ UNCHANGED <<platform, workflowIdx, nonPlatVars>>

\* the fetch of branches/master settles; .catch(() => null) turns a network
\* error into null
MasterFetched ==
    /\ branchPc = "fetch_master"
    /\ branchPc' = IF platform.master.outcome = "ok" THEN "json_master" ELSE "done"
    /\ platPc' = IF platPc = "running" THEN settle(branchPc', workflowIdx) ELSE platPc
    /\ UNCHANGED <<platform, platVulns, workflowIdx, nonPlatVars>>

\* masterResponse.json() settles; it is awaited inside the catch block, so
\* when it throws checkBranchProtection rejects
MasterParsed ==
    /\ branchPc = "json_master"
    /\ IF platform.master.body = Null
       THEN branchPc' = "rejected" /\ platVulns' = platVulns
       ELSE branchPc' = "done"
            /\ platVulns' = platVulns \o masterBranchFindings(platform.master.body[1])
    /\ platPc' = IF platPc = "running" THEN settle(branchPc', workflowIdx) ELSE platPc
    /\ UNCHANGED <<platform, workflowIdx, nonPlatVars>>

\* fetchFileContent of the current workflow settles (null when the file
\* cannot be fetched) and the loop goes on to the next workflow
WorkflowScanned ==
    /\ workflowIdx > 0
    /\ LET workflowFiles == workflowFilesOf(platform.contents)
           workflow == workflowFiles[workflowIdx]
           content == platform.fileContent[workflow.path]
       IN  /\ platVulns' = IF content = Null THEN platVulns
                            ELSE platVulns \o workflowFindings(workflow.path, content[1])
           /\ workflowIdx' = IF workflowIdx < Len(workflowFiles) THEN workflowIdx + 1 ELSE 0
    /\ platPc' = IF platPc = "running" THEN settle(branchPc, workflowIdx') ELSE platPc
    /\ UNCHANGED <<platform, branchPc, nonPlatVars>>

-----------------------------------------------------------------------------
(* scanGitHubSecurity run on one repository                                *)

Feature(status) == <<[status |-> status]>>

\* security_and_analysis of the repo metadata: absent, or an object whose
\* features are absent, without a status, enabled or disabled
SecurityAnalyses ==
    {NoSecurityAnalysis} \cup
    {<<[secret_scanning |-> ss, dependabot_security_updates |-> ds]>> :
        ss \in {Null, Feature(Null), Feature(<<"enabled">>), Feature(<<"disabled">>)},
        ds \in {Null, Feature(<<"enabled">>)}}

Branch(protected, protection) == [protected |-> protected, protection |-> protection]

Response(outcome, body) == [outcome |-> outcome, body |-> body]

\* a response body of a branches request: not JSON (Null), or a branch
BranchBodies ==
    {Null, <<Branch(FALSE, Null)>>, <<Branch(TRUE, Null)>>,
     <<Branch(TRUE, <<[required_pull_request_reviews |-> FALSE]>>)>>,
     <<Branch(TRUE, <<[required_pull_request_reviews |-> TRUE]>>)>>}

BranchResponses ==
    {Response("network_error", Null), Response("not_ok", Null)}
    \cup {Response("ok", body) : body \in BranchBodies}

WorkflowCi == File(".github/workflows/ci.yml", "file", 700)

WorkflowRelease == File(".github/workflows/release.yml", "file", 900)

\* listings with no, one and two workflow files, and what fetching each
\* file gives: null, or a content with the patterns it matches
WorkflowCases == {
    [contents |-> NodeProject,
     fileContent |-> [p \in {} |-> Null]],
    [contents |-> Append(NodeProject, WorkflowCi),
     fileContent |-> [p \in {WorkflowCi.path} |-> Null]],
    [contents |-> Append(NodeProject, WorkflowCi),
     fileContent |-> [p \in {WorkflowCi.path} |->
                        <<{"actions/checkout@v[12]", "on: push", "github.head_ref"}>>]],
    [contents |-> <<WorkflowCi, WorkflowRelease>>,
     fileContent |-> [p \in {WorkflowCi.path, WorkflowRelease.path} |->
                        IF p = WorkflowCi.path
                        THEN <<{"on: push", "branches:", "uses:.*@master"}>>
                        ELSE <<{"secrets.*>>", "run:.*curl.*|bash",
                                "github.event.issue.title", "github.event.comment.body"}>>]] }

PlainCommunity == CHOOSE c \in Communities : c.stargazers_count = 99

Platforms ==
    {[repo |-> Repo(FALSE, MitLicense, PlainCommunity, saa),
      contents |-> w.contents, fileContent |-> w.fileContent,
      main |-> main, master |-> master] :
        saa \in SecurityAnalyses, w \in WorkflowCases,
        main \in BranchResponses, master \in BranchResponses}

InitPlatform ==
    /\ IdleDeepScans /\ IdleExtra
    /\ IdleScore /\ IdleTypo /\ IdleScan
    /\ platform \in Platforms
    /\ platVulns = << >>
    /\ branchPc = "idle"
    /\ workflowIdx = 0
    /\ platPc = "idle"

NextPlatform ==
    \/ ScanGitHubSecurity
    \/ MainFetched
    \/ MainParsed
    \/ MasterFetched
    \/ MasterParsed
    \/ WorkflowScanned

SpecPlatform == InitPlatform /\ [][NextPlatform]_vars

SecretScanningFinding ==
    \E i \in DOMAIN platVulns :
        platVulns[i].description = "GitHub secret scanning not enabled"

\* C4 (as claimed): once the scanner has run, the secret-scanning finding is
\* there if and only if security_and_analysis.secret_scanning.status is not
\* "enabled", the status being missing also when the secret_scanning object
\* or the security_and_analysis object is absent.
C4_FindingIffNotEnabled ==
    platPc # "idle" =>
        (SecretScanningFinding <=>
            ~(/\ platform.repo.security_and_analysis # Null
              /\ platform.repo.security_and_analysis[1].secret_scanning # Null
              /\ platform.repo.security_and_analysis[1].secret_scanning[1].status
                     = <<"enabled">>))

\* C4 (amended): once the scanner has run, the secret-scanning finding is
\* there if and only if the repo metadata has a security_and_analysis object
\* and its secret_scanning status is not "enabled" (status or secret_scanning
\* object missing included); without security_and_analysis there is no finding.
C4_FindingIffAnalysisPresentAndNotEnabled ==
    platPc # "idle" =>
        (SecretScanningFinding <=>
            /\ platform.repo.security_and_analysis # Null
            /\ ~(/\ platform.repo.security_and_analysis[1].secret_scanning # Null
                  /\ platform.repo.security_and_analysis[1].secret_scanning[1].status
                         = <<"enabled">>))

\* the scanner has run on metadata whose security_and_analysis has no
\* secret_scanning object, and the finding is there
C4_Witness ==
    /\ platPc = "returned"
    /\ platform.repo.security_and_analysis # Null
    /\ platform.repo.security_and_analysis[1].secret_scanning = Null
    /\ SecretScanningFinding

\* C7 (as claimed): an exception inside a sub-check of an analyzer is caught
\* inside the analyzer, so checkBranchProtection never rejects and the
\* scanGitHubSecurity task never rejects.
C7_NoAnalyzerTaskRejects == branchPc # "rejected" /\ platPc # "rejected"

-----------------------------------------------------------------------------
(* File contents and the analyzers that scan code files                    *)
(* (supabase/functions/_shared/advancedPatternDetector.ts, which holds     *)
(* detectAdvancedPatterns, detectCodePatterns and analyzeCodeQuality).     *)
(* A fetched text is modelled by what the scans find in it: the regular    *)
(* expressions it matches, the findings of the code-pattern and            *)
(* advanced-pattern detectors, the metric analyzeFile computes and the     *)
(* object JSON.parse returns.                                              *)

Content(matches, codePatterns, advancedPatterns, metric, parsed) ==
    [matches |-> matches, codePatterns |-> codePatterns,
     advancedPatterns |-> advancedPatterns, metric |-> metric, parsed |-> parsed]

\* fetchFileContent: the decoded text, or null when the request fails, the
\* status is not a success, there is no content or the file is too large;
\* files maps the paths GitHub serves to <<content>> or Null
fetchFileContent(files, path) ==
    IF path \in DOMAIN files THEN files[path] ELSE Null

\* file.path || file.name
pathOf(f) == IF f.path # "" THEN f.path ELSE f.name

codeExtensions == <<
    ".js", ".ts", ".jsx", ".tsx", ".py", ".rs", ".go", ".java",
    ".c", ".cpp", ".cs", ".php", ".rb", ".swift", ".kt" >>

isCodeFile(filename) == Some(codeExtensions, LAMBDA ext : EndsWith(filename, ext))

\* Array.prototype.slice(0, n)
Slice(arr, n) == SubSeq(arr, 1, Min2(n, Len(arr)))

MaxFileSize == 1000000

MaxPatternFiles == 20

\* contents.filter(f => isCodeFile(f.name) && f.type === 'file' && f.size < 1000000)
codeFilesOf(contents) ==
    Filter(contents, LAMBDA f : isCodeFile(f.name) /\ f.type = "file" /\ f.size < MaxFileSize)

\* the loop `for (const file of codeFiles.slice(0, 20))` of the two pattern
\* detectors; field names the findings of the detector in the content
RECURSIVE scanCodeFiles(_, _, _)
scanCodeFiles(sample, files, field) ==
    IF sample = << >> THEN << >>
    ELSE LET content == fetchFileContent(files, pathOf(sample[1])) IN
         (IF content = Null THEN << >> ELSE content[1][field])
         \o scanCodeFiles(Tail(sample), files, field)

detectCodePatterns(contents, files) ==
    scanCodeFiles(Slice(codeFilesOf(contents), MaxPatternFiles), files, "codePatterns")

detectAdvancedPatterns(contents, files) ==
    scanCodeFiles(Slice(codeFilesOf(contents), MaxPatternFiles), files, "advancedPatterns")

\* ---- analyzeCodeQuality (the code-quality analyzer of variant B)

CodeQualityMetrics(total, avgSize, avgComplexity, duplication, ratio, large, score, issues) ==
    [total_files_analyzed |-> total, avg_file_size |-> avgSize,
     avg_complexity |-> avgComplexity, code_duplication_risk |-> duplication,
     comment_ratio |-> ratio, large_files_count |-> large,
     quality_score |-> score, issues |-> issues]

\* Math.round(a / b) for a >= 0, b > 0
RoundDiv(a, b) == (2 * a + b) \div (2 * b)

Abs(x) == IF x < 0 THEN 0 - x ELSE x

RECURSIVE SumOf(_, _)
SumOf(arr, field) == IF arr = << >> THEN 0 ELSE arr[1][field] + SumOf(Tail(arr), field)

MaxQualityFiles == 30

LargeFileSize == 50000

\* analyzeFile on the files of the sample whose content could be fetched;
\* complexity and comment_ratio (in hundredths) come with the content
RECURSIVE fileMetricsOf(_, _)
fileMetricsOf(sample, files) ==
    IF sample = << >> THEN << >>
    ELSE LET content == fetchFileContent(files, pathOf(sample[1])) IN
         (IF content = Null THEN << >>
          ELSE <<[filename |-> sample[1].name, size |-> sample[1].size,
                  complexity |-> content[1].metric.complexity,
                  comment_ratio |-> content[1].metric.comment_ratio]>>)
         \o fileMetricsOf(Tail(sample), files)

stemExtensions == <<".js", ".ts", ".jsx", ".tsx", ".py", ".rb", ".java">>

\* name.replace(/\.(js|ts|jsx|tsx|py|rb|java)$/, '')
stemOf(name) ==
    LET hits == {k \in DOMAIN stemExtensions : EndsWith(name, stemExtensions[k])} IN
    IF hits = {} THEN name
    ELSE LET k == CHOOSE h \in hits : TRUE
         IN  SubSeq(name, 1, Len(name) - Len(stemExtensions[k]))

\* calculateDuplicationRisk, a percentage
calculateDuplicationRisk(fileMetrics) ==
    LET n == Len(fileMetrics)
        sumSize == SumOf(fileMetrics, "size")
        sumComplexity == SumOf(fileMetrics, "complexity")
        similarSizeCount ==
            Count(fileMetrics, LAMBDA m : 10 * Abs(n * m.size - sumSize) < sumSize)
        similarComplexityCount ==
            Count(fileMetrics, LAMBDA m : Abs(n * m.complexity - sumComplexity) < 3 * n)
        stem(i) == stemOf(ToLower(fileMetrics[i].filename))
        similarNames ==
            {ToLower(fileMetrics[i].filename) : i \in
                {i \in 1..n : \E j \in 1..n :
                    /\ i # j
                    /\ Includes(stem(i), stem(j)) \/ Includes(stem(j), stem(i))}}
    IN  IF n < 2 THEN 0
        ELSE RoundDiv(40 * similarSizeCount + 30 * similarComplexityCount
                      + 30 * Cardinality(similarNames), n)

calculateQualityScore(metrics) ==
    LET complexityPart == IF metrics.avg_complexity > 20 THEN -30
                          ELSE IF metrics.avg_complexity > 15 THEN -20
                          ELSE IF metrics.avg_complexity > 10 THEN -10 ELSE 0
        commentPart == IF metrics.comment_ratio < 5 THEN -20
                       ELSE IF metrics.comment_ratio < 10 THEN -10
                       ELSE IF metrics.comment_ratio > 20 THEN 10 ELSE 0
        largePart == IF metrics.large_files_count > 10 THEN -20
                     ELSE IF metrics.large_files_count > 5 THEN -10 ELSE 0
        sizePart == IF metrics.avg_file_size > 50000 THEN -15
                    ELSE IF metrics.avg_file_size > 30000 THEN -10 ELSE 0
        duplicationPart == IF metrics.code_duplication_risk > 40 THEN -20
                           ELSE IF metrics.code_duplication_risk > 30 THEN -10 ELSE 0
    IN  Max2(0, Min2(100, 100 + complexityPart + commentPart + largePart + sizePart
                          + duplicationPart))

\* kilobytes with one decimal: (bytes / 1000).toFixed(1)
KiloBytes(bytes) ==
    LET tenths == RoundDiv(bytes, 100) IN ToString(tenths \div 10) \o "." \o ToString(tenths % 10)

analyzeCodeQuality(contents, files) ==
    LET codeFiles == codeFilesOf(contents)
        fileMetrics == fileMetricsOf(Slice(codeFiles, MaxQualityFiles), files)
        n == Len(fileMetrics)
        avgSize == RoundDiv(SumOf(fileMetrics, "size"), n)
        avgComplexity == RoundDiv(SumOf(fileMetrics, "complexity"), n)
        ratio == RoundDiv(SumOf(fileMetrics, "comment_ratio"), n)
        large == Count(fileMetrics, LAMBDA m : m.size > LargeFileSize)
        duplicateRisk == calculateDuplicationRisk(fileMetrics)
        measured == CodeQualityMetrics(n, avgSize, avgComplexity, duplicateRisk, ratio,
                                       large, 0, << >>)
        issues ==
            When(avgComplexity > 15,
                 "High average cyclomatic complexity: " \o ToString(avgComplexity))
            \o When(ratio < 5, "Low comment ratio: " \o ToString(ratio) \o ".0%")
            \o When(large > 5, ToString(large) \o " files exceed 50KB")
            \o When(avgSize > 30000, "Large average file size: " \o KiloBytes(avgSize) \o "KB")
            \o When(duplicateRisk > 30,
                    "High code duplication risk: " \o ToString(duplicateRisk) \o "%")
    IN  IF Len(codeFiles) = 0
        THEN CodeQualityMetrics(0, 0, 0, 0, 0, 0, 50, <<"No code files found to analyze">>)
        ELSE IF n = 0
        THEN CodeQualityMetrics(0, 0, 0, 0, 0, 0, 50, <<"Unable to analyze any files">>)
        ELSE CodeQualityMetrics(n, avgSize, avgComplexity, duplicateRisk, ratio, large,
                                calculateQualityScore(measured), issues)

\* ---- analyzeCodeQuality of the bundled handler (variant C): listing only

codeExtensions_C == <<
    ".js", ".ts", ".jsx", ".tsx", ".py", ".go", ".rs", ".java", ".cpp", ".c", ".h",
    ".rb", ".php", ".swift", ".kt" >>

linterNames == <<"eslint", "tslint", "pylint", ".eslintrc", ".pylintrc">>

formatterNames == <<"prettier", ".prettierrc", "black", ".editorconfig">>

analyzeCodeQuality_C(contents) ==
    LET codeFiles ==
            Filter(contents, LAMBDA f :
                /\ f.type = "file"
                /\ ~StartsWith(f.name, ".")
                /\ Some(codeExtensions_C, LAMBDA ext : EndsWith(ToLower(f.name), ext)))
        totalFiles == Len(codeFiles)
        totalSize == SumOf(codeFiles, "size")
        largeFilesCount == Count(codeFiles, LAMBDA f : f.size > LargeFileSize)
        hasTests == Some(contents, LAMBDA f :
                        \/ Includes(ToLower(f.name), "test")
                        \/ Includes(ToLower(f.name), "spec")
                        \/ Includes(ToLower(f.name), "__tests__"))
        hasLinter == Some(contents, LAMBDA f :
                        Some(linterNames, LAMBDA lint : Includes(ToLower(f.name), lint)))
        hasFormatter == Some(contents, LAMBDA f :
                        Some(formatterNames, LAMBDA fmt : Includes(ToLower(f.name), fmt)))
        highAverage == totalFiles > 0 /\ totalSize > 30000 * totalFiles
        fewFiles == totalFiles > 0 /\ totalFiles < 3
        qualityScore ==
            50 + (IF hasTests THEN 20 ELSE 0) + (IF hasLinter THEN 10 ELSE 0)
               + (IF hasFormatter THEN 5 ELSE 0)
               - (IF largeFilesCount > 0 THEN Min2(15, largeFilesCount * 3) ELSE 0)
               - (IF highAverage THEN 10 ELSE 0) - (IF fewFiles THEN 15 ELSE 0)
        issues ==
            When(~hasTests, "No test files detected")
            \o When(largeFilesCount > 0,
                    ToString(largeFilesCount) \o " large files (>50KB) detected")
            \o When(highAverage, "High average file size")
            \o When(fewFiles, "Very few code files - may be incomplete")
    IN  CodeQualityMetrics(totalFiles,
                           IF totalFiles > 0 THEN RoundDiv(totalSize, totalFiles) ELSE 0,
                           0, 0, 0, largeFilesCount, Max2(0, Min2(100, qualityScore)), issues)

-----------------------------------------------------------------------------
(* Configuration scanner: scanConfigurationVulnerabilities                 *)
(* (supabase/functions/_shared/configurationScanner.ts).  The four         *)
(* sub-checks push on one array; the model lists their findings in the     *)
(* order of the calls.                                                     *)

\* a loop `for (const file of sample) { try { content = await
\* fetchFileContent(...); if (!content) continue; ... } catch {} }`:
\* Findings(file, matches) are the findings pushed for one fetched file
\* the concatenation of the per-file findings, in file order
RECURSIVE Flatten(_)
Flatten(arrays) == IF arrays = << >> THEN << >> ELSE arrays[1] \o Flatten(Tail(arrays))

scanFiles(sample, files, Findings(_, _)) ==
    Flatten([i \in DOMAIN sample |->
                LET content == fetchFileContent(files, pathOf(sample[i])) IN
                IF content = Null THEN << >> ELSE Findings(sample[i], content[1].matches)])

\* secretPatterns of scanEnvFiles: the regular expression and its name
envSecretPatterns == <<
    [pattern |-> "password|passwd|pwd", name |-> "password"],
    [pattern |-> "api[_-]?key|apikey", name |-> "API key"],
    [pattern |-> "secret", name |-> "secret"],
    [pattern |-> "token", name |-> "token"],
    [pattern |-> "aws[_-]?access", name |-> "AWS credential"] >>

RECURSIVE envSecretFindings(_, _)
envSecretFindings(matches, k) ==
    IF k > Len(envSecretPatterns) THEN << >>
    ELSE When(envSecretPatterns[k].pattern \in matches,
              Vulnerability("critical", "configuration",
                            "Potential " \o envSecretPatterns[k].name \o " exposed in .env file",
                            ".env",
                            "Found " \o envSecretPatterns[k].name
                                \o " reference in committed .env file"))
         \o envSecretFindings(matches, k + 1)

configExtensions == <<"config.js", "config.ts", "config.json", "config.yml", "config.yaml">>

hardcodedSecrets == {"api[_-]?key|apikey [:=] \\w{20,}", "password [:=] \\w+", "secret [:=] \\w{20,}"}

configFileFindings(file, matches) ==
    When(matches \cap hardcodedSecrets # {},
         Vulnerability("high", "configuration", "Hardcoded credential in configuration file",
                       file.name,
                       "Configuration contains hardcoded secrets. Use environment variables"))

\* contents.filter(f => f.name.match(/config\.(js|ts|json|yml|yaml)$/)
\*                      && !f.name.includes('test'))
configFilesOf(contents) ==
    Filter(contents, LAMBDA f :
        /\ Some(configExtensions, LAMBDA ext : EndsWith(f.name, ext))
        /\ ~Includes(f.name, "test"))

\* scanEnvFiles: the finding for a committed .env is pushed before its
\* content is fetched
scanEnvFiles(contents, files) ==
    LET hasEnvFile == Some(contents, LAMBDA f : f.name = ".env")
        content == fetchFileContent(files, ".env")
        configFiles == configFilesOf(contents)
    IN  When(hasEnvFile,
             Vulnerability("critical", "configuration",
                           "Environment file (.env) committed to repository", ".env",
                           "This file may contain sensitive credentials. Remove it and use .env.example instead"))
        \o (IF hasEnvFile /\ content # Null THEN envSecretFindings(content[1].matches, 1)
            ELSE << >>)
        \o scanFiles(configFiles, files, configFileFindings)

dockerfileFindings(dockerfile, matches) ==
    When("FROM\\s+.*:latest" \in matches,
         Vulnerability("medium", "configuration", "Docker image using :latest tag",
                       dockerfile.name, "Pin specific image versions for reproducible builds"))
    \o When("USER\\s+root" \in matches /\ "USER\\s+(?!root)" \notin matches,
            Vulnerability("medium", "configuration", "Dockerfile runs as root user",
                          dockerfile.name, "Create and use a non-root user for better security"))
    \o When("ADD\\s+http" \in matches,
            Vulnerability("low", "configuration", "Dockerfile uses ADD with URLs",
                          dockerfile.name, "Use COPY or RUN with curl/wget for better control"))
    \o When(matches \cap {"ARG\\s+.*(?:password|secret|token|key)",
                          "ENV\\s+.*(?:password|secret|token|key)\\s*=\\s*\\w+"} # {},
            Vulnerability("high", "configuration", "Potential secrets in Dockerfile",
                          dockerfile.name,
                          "Avoid hardcoding secrets in Dockerfile. Use build secrets or runtime environment"))

dockerfilesOf(contents) ==
    Filter(contents, LAMBDA f : Includes(ToLower(f.name), "dockerfile"))

scanDockerfiles(contents, files) ==
    scanFiles(dockerfilesOf(contents), files, dockerfileFindings)

cicdWorkflowFindings(workflow, matches) ==
    When("\\$\\{\\{\\s*github\\.event\\." \in matches,
         Vulnerability("high", "configuration", "Potential script injection in GitHub Actions",
                       workflow.path,
                       "Using github.event context in run commands can allow code injection"))
    \o When("pull_request_target" \in matches /\ "checkout" \in matches,
            Vulnerability("high", "configuration", "Unsafe pull_request_target with checkout",
                          workflow.path,
                          "pull_request_target with checkout can execute untrusted code"))
    \o When("GITHUB_TOKEN.*echo" \in matches,
            Vulnerability("critical", "configuration", "GITHUB_TOKEN potentially exposed in logs",
                          workflow.path, "Never echo or log GITHUB_TOKEN"))
    \o When("permissions:" \notin matches,
            Vulnerability("low", "configuration",
                          "No explicit permissions in GitHub Actions workflow", workflow.path,
                          "Define explicit permissions to follow principle of least privilege"))

scanCICD(contents, files) ==
    LET gitlab == fetchFileContent(files, ".gitlab-ci.yml") IN
    scanFiles(workflowFilesOf(contents), files, cicdWorkflowFindings)
    \o When(/\ Some(contents, LAMBDA f : f.name = ".gitlab-ci.yml")
            /\ gitlab # Null
            /\ "script:.*\\$\\{?[A-Z_]+" \in gitlab[1].matches,
            Vulnerability("medium", "configuration",
                          "Environment variables used directly in GitLab CI scripts",
                          ".gitlab-ci.yml",
                          "Validate and sanitize environment variables before use"))

nginxFindings(config, matches) ==
    When("add_header\\s+X-Frame-Options" \notin matches,
         Vulnerability("medium", "configuration", "Missing X-Frame-Options header in nginx config",
                       config.name, "Add X-Frame-Options header to prevent clickjacking"))
    \o When("server_tokens\\s+on" \in matches,
            Vulnerability("low", "configuration", "Nginx server tokens enabled", config.name,
                          "Set server_tokens off to hide version information"))

\* `/express\(\)/ && !/helmet\(\)/i.test(content)`: the first operand is a
\* regular-expression object, which is always truthy
expressFindings(file, matches) ==
    When("cors\\s*\\(\\s*\\{[\\s\\S]*origin:\\s*\\*" \in matches,
         Vulnerability("medium", "configuration", "Overly permissive CORS configuration",
                       file.name, "CORS allows all origins (*). Restrict to specific domains"))
    \o When("helmet\\(\\)" \notin matches,
            Vulnerability("low", "configuration", "Express app without helmet security headers",
                          file.name, "Consider using helmet middleware for security headers"))

MaxExpressFiles == 5

nginxConfigsOf(contents) ==
    Filter(contents, LAMBDA f : Includes(f.name, "nginx") /\ EndsWith(f.name, ".conf"))

expressFilesOf(contents) ==
    Filter(contents, LAMBDA f :
        /\ Includes(f.name, "server") \/ Includes(f.name, "app")
        /\ EndsWith(f.name, ".js") \/ EndsWith(f.name, ".ts"))

scanWebServerConfigs(contents, files) ==
    scanFiles(nginxConfigsOf(contents), files, nginxFindings)
    \o scanFiles(Slice(expressFilesOf(contents), MaxExpressFiles), files, expressFindings)

scanConfigurationVulnerabilities(contents, files) ==
    scanEnvFiles(contents, files) \o scanDockerfiles(contents, files)
    \o scanCICD(contents, files) \o scanWebServerConfigs(contents, files)

-----------------------------------------------------------------------------
(* Supply-chain scanner: the other sub-checks and scanSupplyChain          *)
(* (supabase/functions/_shared/supplyChainScanner.ts)                      *)

knownDeprecatedNpm == <<
    "request", "node-uuid", "babel-preset-es2015", "babel-preset-es2016",
    "babel-preset-es2017", "gulp-util", "natives", "coffeescript",
    "babel-preset-stage-0", "babel-preset-stage-1", "babel-preset-stage-2",
    "babel-preset-stage-3", "core-js@2" >>

knownDeprecatedPython == <<
    "pycrypto", "python-oauth2", "django-guardian", "nose", "optparse", "imp" >>

\* Array.prototype.includes
Contains(arr, x) == \E i \in DOMAIN arr : arr[i] = x

\* Array.prototype.join
RECURSIVE Join(_, _)
Join(arr, sep) ==
    IF arr = << >> THEN ""
    ELSE IF Len(arr) = 1 THEN arr[1]
    ELSE arr[1] \o sep \o Join(Tail(arr), sep)

\* the text of a listed file parsed by the scanner: Null when the file is
\* not listed, cannot be fetched or cannot be parsed (every sub-check
\* catches the exception of JSON.parse)
parsedFile(contents, files, name) ==
    LET content == fetchFileContent(files, name) IN
    IF ~Some(contents, LAMBDA f : f.name = name) \/ content = Null THEN Null
    ELSE content[1].parsed

checkDeprecatedPackages(contents, files) ==
    LET pkg == parsedFile(contents, files, "package.json")
        requirements == parsedFile(contents, files, "requirements.txt")
    IN  (IF pkg = Null THEN << >>
         ELSE Flatten([i \in DOMAIN allDepsOf(pkg[1]) |->
                  LET depName == allDepsOf(pkg[1])[i] IN
                  When(Contains(knownDeprecatedNpm, depName),
                       Vulnerability("high", "dependency", "Deprecated npm package: " \o depName,
                                     "package.json",
                                     "This package is no longer maintained. Find an alternative"))
                  \o When(depName \in pkg[1].githubDeps,
                          Vulnerability("medium", "dependency", "GitHub dependency: " \o depName,
                                        "package.json",
                                        "Direct GitHub dependencies can pose security and stability risks"))]))
        \o
        (IF requirements = Null THEN << >>
         ELSE Flatten([i \in DOMAIN requirements[1].lines |->
                  LET pkgName == ToLower(requirements[1].lines[i]) IN
                  When(Contains(knownDeprecatedPython, pkgName),
                       Vulnerability("high", "dependency",
                                     "Deprecated Python package: " \o pkgName, "requirements.txt",
                                     "This package is no longer maintained. Find an alternative"))]))

permissiveLicenses == <<"MIT", "Apache-2.0", "BSD", "ISC">>

checkLicenseConflicts(contents, files) ==
    LET pkg == parsedFile(contents, files, "package.json") IN
    IF pkg = Null THEN << >>
    ELSE IF pkg[1].license = Null THEN << >>
    ELSE LET projectLicense == pkg[1].license[1]
             isProjectPermissive ==
                 Some(permissiveLicenses, LAMBDA l : Includes(projectLicense, l))
             problematicDeps ==
                 Filter(allDepsOf(pkg[1]),
                        LAMBDA depName : isProjectPermissive /\ Includes(ToLower(depName), "gpl"))
         IN  When(Len(problematicDeps) > 0,
                  Vulnerability("medium", "dependency", "Potential license conflict detected",
                                "package.json",
                                "Project uses " \o projectLicense
                                    \o " but may have GPL dependencies. Review: "
                                    \o Join(problematicDeps, ", ")))

MaxTotalDeps == 100

MaxPlainDeps == 50

checkDependencyDepth(contents, files) ==
    LET pkg == parsedFile(contents, files, "package.json") IN
    IF pkg = Null THEN << >>
    ELSE LET depCount == Len(pkg[1].dependencies)
             devDepCount == Len(pkg[1].devDependencies)
             totalDeps == depCount + devDepCount
             missingPeers ==
                 Filter(pkg[1].peerDependencies,
                        LAMBDA peer : /\ ~Contains(pkg[1].dependencies, peer)
                                      /\ ~Contains(pkg[1].devDependencies, peer))
         IN  When(totalDeps > MaxTotalDeps,
                  Vulnerability("low", "dependency",
                                "High dependency count: " \o ToString(totalDeps) \o " packages",
                                "package.json",
                                "Large dependency trees increase attack surface. Consider reducing dependencies"))
             \o When(depCount > MaxPlainDeps /\ devDepCount = 0,
                     Vulnerability("low", "dependency", "No devDependencies separation",
                                   "package.json",
                                   "Consider moving build/test dependencies to devDependencies"))
             \o When(Len(missingPeers) > 0,
                     Vulnerability("medium", "dependency", "Missing peer dependencies",
                                   "package.json",
                                   "Peer dependencies not installed: " \o Join(missingPeers, ", ")))

\* scanSupplyChain: the four sub-checks push on one array; the model lists
\* their findings in the order of the calls
scanSupplyChain(contents, files) ==
    checkTyposquatting([listed |-> Some(contents, LAMBDA f : f.name = "package.json"),
                        content |-> fetchFileContent(files, "package.json")])
    \o checkDeprecatedPackages(contents, files)
    \o checkLicenseConflicts(contents, files)
    \o checkDependencyDepth(contents, files)

-----------------------------------------------------------------------------
(* The remaining analyzers of the handlers                                 *)

\* scanBasicSecurity of the bundled handler (variant C)
scanBasicSecurity(contents) ==
    When(Some(contents, LAMBDA f : f.name = ".env"),
         Vulnerability("critical", "configuration",
                       "Environment file (.env) committed to repository", ".env",
                       "This file may contain sensitive credentials"))
    \o When(Some(contents, LAMBDA f : f.name = "package.json"),
            Vulnerability("medium", "dependency",
                          "JavaScript dependencies detected - manual review recommended",
                          "package.json", "Check for known vulnerable packages"))

\* the embedded table of known-bad packages (the bundled handler carries it)
knownVulnPackages == <<"node-ipc", "event-stream">>

\* scanDependencyVulnerabilities of vulnerabilityScanner.ts, a file that is
\* not in the repository snapshot.  After the specification: it inspects the
\* manifest files for presence and absence (a manifest without a lock file)
\* and flags the dependencies found in the embedded table; every finding is
\* a dependency finding located at the manifest.
scanDependencyVulnerabilities(contents, files) ==
    LET pkg == parsedFile(contents, files, "package.json")
        hasLock == Some(contents, LAMBDA f : f.name \in lockFiles)
    IN  When(Some(contents, LAMBDA f : f.name = "package.json") /\ ~hasLock,
             Vulnerability("low", "dependency", "No lock file for package.json",
                           "package.json", "Commit a lock file to pin dependency versions"))
        \o (IF pkg = Null THEN << >>
            ELSE Flatten([i \in DOMAIN allDepsOf(pkg[1]) |->
                     When(Contains(knownVulnPackages, allDepsOf(pkg[1])[i]),
                          Vulnerability("high", "dependency",
                                        "Known vulnerable package: " \o allDepsOf(pkg[1])[i],
                                        "package.json",
                                        "This package has known security issues")) ]))

\* what checkBranchProtection has done when it settles: the findings it
\* pushed, or rejected when json() of the master response throws in the
\* catch block
checkBranchProtection(main, master) ==
    IF main.outcome = "not_ok" THEN [rejected |-> FALSE, findings |-> << >>]
    ELSE IF main.outcome = "ok" /\ main.body # Null
    THEN [rejected |-> FALSE, findings |-> mainBranchFindings(main.body[1])]
    ELSE IF master.outcome # "ok" THEN [rejected |-> FALSE, findings |-> << >>]
    ELSE IF master.body = Null THEN [rejected |-> TRUE, findings |-> << >>]
    ELSE [rejected |-> FALSE, findings |-> masterBranchFindings(master.body[1])]

checkGitHubActions(contents, files) ==
    scanFiles(workflowFilesOf(contents), files,
              LAMBDA workflow, matches : workflowFindings(workflow.path, matches))

\* scanGitHubSecurity when all its sub-checks have settled: rejected when
\* checkBranchProtection rejects, else the findings (checkRepoSettings
\* pushes first, it never awaits)
scanGitHubSecurity(repo, contents, files, main, master) ==
    LET branch == checkBranchProtection(main, master) IN
    [rejected |-> branch.rejected,
     findings |-> checkRepoSettings(repo) \o branch.findings
                  \o checkGitHubActions(contents, files)]

-----------------------------------------------------------------------------
(* The scan handler (Deno.serve) of the three variants                     *)

IsWordChar(c) ==
    Includes(LowerChars, c) \/ Includes(UpperChars, c) \/ Includes(Digits, c) \/ c = "_"

IsOwnerChar(c) == IsWordChar(c) \/ c = "-"

IsRepoChar(c) == IsWordChar(c) \/ c = "." \/ c = "-"

\* s without its first n characters
Drop(s, n) == SubSeq(s, n + 1, Len(s))

\* githubUrl.match(/^https?:\/\/(www\.)?github\.com\/([\w-]+)\/([\w.-]+)\/?$/):
\* Null, or <<[owner |-> match[2], repoSlug |-> match[3]]>>
matchGithubUrl(url) ==
    LET afterScheme == IF StartsWith(url, "https://") THEN <<Drop(url, 8)>>
                       ELSE IF StartsWith(url, "http://") THEN <<Drop(url, 7)>>
                       ELSE Null
        afterWww == IF afterScheme = Null THEN Null
                    ELSE IF StartsWith(afterScheme[1], "www.") THEN <<Drop(afterScheme[1], 4)>>
                    ELSE afterScheme
        afterHost == IF afterWww = Null THEN Null
                     ELSE IF StartsWith(afterWww[1], "github.com/") THEN <<Drop(afterWww[1], 11)>>
                     ELSE Null
    IN  IF afterHost = Null THEN Null
        ELSE LET path == afterHost[1]
                 slashes == {i \in 1..Len(path) : CharAt(path, i) = "/"}
             IN  IF slashes = {} THEN Null
                 ELSE LET slash == CHOOSE i \in slashes : \A j \in slashes : i <= j
                          owner == SubSeq(path, 1, slash - 1)
                          rest == Drop(path, slash)
                          repoSlug == IF EndsWith(rest, "/")
                                      THEN SubSeq(rest, 1, Len(rest) - 1) ELSE rest
                      IN  IF /\ Len(owner) > 0 /\ AllChars(owner, IsOwnerChar)
                             /\ Len(repoSlug) > 0 /\ AllChars(repoSlug, IsRepoChar)
                          THEN <<[owner |-> owner, repoSlug |-> repoSlug]>>
                          ELSE Null

\* res.ok ? await res.json() : fallback
bodyOr(res, fallback) == IF res.outcome = "ok" THEN res.body ELSE fallback

\* fetchRepoData with every request settled on its own: a request that fails
\* at the network level gives the default like a non-success status
fetchRepoDataSettled(api) ==
    [rejected |-> FALSE,
     value |-> Snapshot(bodyOr(api.repo, Null), bodyOr(api.contents, << >>),
                        bodyOr(api.commits, << >>), bodyOr(api.contributors, << >>),
                        bodyOr(api.owner, Null))]

\* fetchRepoData: the five requests are awaited together; when one of them
\* fails at the network level fetch rejects, Promise.all rejects and so does
\* fetchRepoData.  A response with a non-success status gives the default.
fetchRepoData(api) ==
    IF \E k \in {"repo", "contents", "commits", "contributors", "owner"} :
           api[k].outcome = "network_error"
    THEN [rejected |-> TRUE, value |-> Null]
    ELSE [rejected |-> FALSE,
          value |-> Snapshot(bodyOr(api.repo, Null), bodyOr(api.contents, << >>),
                             bodyOr(api.commits, << >>), bodyOr(api.contributors, << >>),
                             bodyOr(api.owner, Null))]

\* the five URLs fetchRepoData requests
repoDataRequests(repoName, owner) ==
    {"https://api.github.com/repos/" \o repoName,
     "https://api.github.com/repos/" \o repoName \o "/contents",
     "https://api.github.com/repos/" \o repoName \o "/commits?per_page=30",
     "https://api.github.com/repos/" \o repoName \o "/contributors?per_page=10",
     "https://api.github.com/users/" \o owner}

HttpResponse(status, body) == [status |-> status, body |-> body]

ErrorBody(message) == [error |-> message]

\* the Promise.all over the analyzers of a variant, and the bundled
\* handler's two awaits: rejected, or the findings in the order the handler
\* concatenates them and the code-quality metrics
analyze(v, d, api) ==
    CASE v = "A" ->
            [rejected |-> FALSE,
             vulnerabilities |-> scanDependencyVulnerabilities(d.contents, api.files)
                                 \o detectCodePatterns(d.contents, api.files),
             metrics |-> Null]
      [] v = "B" ->
            LET platformFindings ==
                    scanGitHubSecurity(d.repo[1], d.contents, api.files, api.main, api.master)
            IN  [rejected |-> platformFindings.rejected,
                 vulnerabilities |-> scanDependencyVulnerabilities(d.contents, api.files)
                                     \o detectCodePatterns(d.contents, api.files)
                                     \o scanConfigurationVulnerabilities(d.contents, api.files)
                                     \o scanSupplyChain(d.contents, api.files)
                                     \o platformFindings.findings
                                     \o detectAdvancedPatterns(d.contents, api.files),
                 metrics |-> <<analyzeCodeQuality(d.contents, api.files)>>]
      [] v = "C" ->
            [rejected |-> FALSE,
             vulnerabilities |-> scanBasicSecurity(d.contents),
             metrics |-> <<analyzeCodeQuality_C(d.contents)>>]

\* the row the handler inserts in repo_scans
ScanRow(url, repoName, r) ==
    [github_url |-> url, repo_name |-> repoName,
     safety_score |-> r.safety_score, legitimacy_score |-> r.legitimacy_score,
     overall_score |-> r.overall_score, confidence |-> r.confidence,
     breakdown |-> r.breakdown, notes |-> r.notes,
     risk_factors |-> r.risk_factors, positive_indicators |-> r.positive_indicators,
     vulnerabilities |-> r.vulnerabilities,
     vulnerability_summary |-> r.vulnerability_summary,
     code_quality_metrics |-> r.code_quality_metrics]

InternalServerError == HttpResponse(500, ErrorBody("Internal server error"))

TokenGateConfig(enabled, contract_address, minimum_balance, whitelist_addresses, rate_limit_enabled, free_scans_per_day) ==
    [enabled |-> enabled, contract_address |-> contract_address,
     minimum_balance |-> minimum_balance, whitelist_addresses |-> whitelist_addresses,
     rate_limit_enabled |-> rate_limit_enabled, free_scans_per_day |-> free_scans_per_day]

AccessLog(id, walletAddress, ipAddress, hasTokenAccess, scan_count, today) ==
    [id |-> id, wallet_address |-> walletAddress, ip_address |-> ipAddress,
     has_token_access |-> hasTokenAccess, scan_count |-> scan_count, scan_date |-> today]

AccessCheckResult(allowed, has_token_access, reason, scans_remaining) ==
    [allowed |-> allowed, has_token_access |-> has_token_access, reason |-> reason,
     scans_remaining |-> scans_remaining]

\* walletAddress || ipAddress
identifierOf(walletAddress, ipAddress) ==
    IF walletAddress # Null /\ walletAddress[1] # "" THEN walletAddress[1] ELSE ipAddress

\* the rows selected by .or(wallet_address.eq.X, ip_address.eq.X)
\* .eq("scan_date", today).eq("has_token_access", flag)
accessLogsOf(log, identifier, today, hasTokenAccess) ==
    SelectSeq(log, LAMBDA row :
        /\ row.wallet_address = <<identifier>> \/ row.ip_address = identifier
        /\ row.scan_date = today
        /\ row.has_token_access = hasTokenAccess)

\* a rate limit that still lets the client in when the quota is used up
checkRateLimitInclusive(log, walletAddress, ipAddress, freeScansPerDay, today) ==
    LET logs == accessLogsOf(log, identifierOf(walletAddress, ipAddress), today, FALSE)
        totalScans == SumOf(logs, "scan_count")
    IN  [allowed |-> totalScans <= freeScansPerDay,
         scans_remaining |-> Max2(0, freeScansPerDay - totalScans)]

\* checkRateLimit: the free scans of the identifier today against the quota
checkRateLimit(log, walletAddress, ipAddress, freeScansPerDay, today) ==
    LET logs == accessLogsOf(log, identifierOf(walletAddress, ipAddress), today, FALSE)
        totalScans == SumOf(logs, "scan_count")
    IN  [allowed |-> totalScans < freeScansPerDay,
         scans_remaining |-> Max2(0, freeScansPerDay - totalScans)]

\* logAccess: the statement it sends.  maybeSingle gives the row when exactly
\* one matches (more than one is an error, data is null): that row's
\* scan_count is incremented, otherwise a row with scan_count 1 is inserted
logAccess(log, walletAddress, ipAddress, hasTokenAccess, today) ==
    LET existing == accessLogsOf(log, identifierOf(walletAddress, ipAddress), today,
                                 hasTokenAccess)
    IN  IF Len(existing) = 1
        THEN [table |-> "scan_access_log", op |-> "update", id |-> existing[1].id,
              row |-> [existing[1] EXCEPT !.scan_count = @ + 1]]
        ELSE [table |-> "scan_access_log", op |-> "insert", id |-> Len(log) + 1,
              row |-> AccessLog(Len(log) + 1, walletAddress, ipAddress, hasTokenAccess,
                                1, today)]

\* the table after the statement of logAccess
logged(log, statement) ==
    IF statement.op = "update"
    THEN [i \in DOMAIN log |-> IF log[i].id = statement.id THEN statement.row ELSE log[i]]
    ELSE Append(log, statement.row)

\* a holder test that takes any stated balance
isTokenHolderAnyBalance(config, walletAddress, tokenBalance) ==
    /\ tokenBalance # Null
    /\ walletAddress # Null /\ walletAddress[1] # ""
    /\ config.contract_address # Null /\ config.contract_address[1] # ""

\* tokenBalance !== undefined && walletAddress && config.contract_address
\* && tokenBalance >= config.minimum_balance
isTokenHolder(config, walletAddress, tokenBalance) ==
    /\ tokenBalance # Null
    /\ walletAddress # Null /\ walletAddress[1] # ""
    /\ config.contract_address # Null /\ config.contract_address[1] # ""
    /\ tokenBalance[1] >= config.minimum_balance

\* a gate that lets everyone in as a token holder and keeps no log
checkAccessUnlogged(config, log, walletAddress, ipAddress, tokenBalance, today) ==
    [result |-> AccessCheckResult(TRUE, TRUE, "Valid token holder", Null), sent |-> << >>]

\* checkAccess: its result and the statements it sent (none, or the one of
\* logAccess).  The selects on the two tables succeed.
checkAccess(config, log, walletAddress, ipAddress, tokenBalance, today) ==
    IF config = Null \/ ~config[1].enabled
    THEN [result |-> AccessCheckResult(TRUE, FALSE, "Token gate disabled - open access", Null),
          sent |-> << >>]
    ELSE IF /\ walletAddress # Null /\ walletAddress[1] # ""
            /\ Contains(config[1].whitelist_addresses, ToLower(walletAddress[1]))
    THEN [result |-> AccessCheckResult(TRUE, TRUE, "Whitelisted address", Null),
          sent |-> <<logAccess(log, walletAddress, ipAddress, TRUE, today)>>]
    ELSE IF isTokenHolder(config[1], walletAddress, tokenBalance)
    THEN [result |-> AccessCheckResult(TRUE, TRUE, "Valid token holder", Null),
          sent |-> <<logAccess(log, walletAddress, ipAddress, TRUE, today)>>]
    ELSE IF config[1].rate_limit_enabled
    THEN LET rateLimitCheck == checkRateLimit(log, walletAddress, ipAddress,
                                              config[1].free_scans_per_day, today)
         IN  IF rateLimitCheck.allowed
             THEN [result |-> AccessCheckResult(TRUE, FALSE, "Within free scan limit",
                                                <<rateLimitCheck.scans_remaining>>),
                   sent |-> <<logAccess(log, walletAddress, ipAddress, FALSE, today)>>]
             ELSE [result |-> AccessCheckResult(FALSE, FALSE,
                                  "Rate limit exceeded. Hold tokens for unlimited access.",
                                  <<0>>),
                   sent |-> << >>]
    ELSE [result |-> AccessCheckResult(FALSE, FALSE,
                         "Token gate enabled. Token required for access.", Null),
          sent |-> << >>]

\* await checkAccess(supabase, walletAddress || null, clientIp, tokenBalance)
\* (variants A and B; the bundled handler has no token gate): the access is
\* logged, and a refusal is answered 403 with the reason
CheckAccess ==
    /\ pc = "received" /\ variant \in {"A", "B"}
    /\ LET check == checkAccess(token_gate_config, scan_access_log, request.walletAddress,
                                request.clientIp, request.tokenBalance, now)
       IN  /\ accessCheck' = <<check.result>>
           /\ statements' = statements \o check.sent
           /\ scan_access_log' = IF check.sent = << >> THEN scan_access_log
                                 ELSE logged(scan_access_log, check.sent[1])
           /\ IF check.result.allowed
              THEN pc' = "access_checked" /\ response' = response
              ELSE /\ pc' = "done"
                   /\ response' = <<HttpResponse(403,
                                       [error |-> check.result.reason,
                                        token_gate_active |-> TRUE,
                                        scans_remaining |-> check.result.scans_remaining])>>
    /\ UNCHANGED <<request, github, target, repo_scans, tasks, token_gate_config, chain,
                   fetched,
                   scoreVars, typoVars, platVars, deep_scans, extraVars>>

\* the URL is validated and fetchRepoData is called; a body without
\* githubUrl makes githubUrl.match throw, which the outer catch answers
ValidateUrl ==
    /\ \/ pc = "access_checked"
       \/ pc = "received" /\ variant = "C"
    /\ IF request.githubUrl = Null
       THEN pc' = "done" /\ target' = target /\ response' = <<InternalServerError>>
       ELSE LET match == matchGithubUrl(request.githubUrl[1]) IN
            IF match = Null
            THEN /\ pc' = "done" /\ target' = target
                 /\ response' = <<HttpResponse(400, ErrorBody("Invalid GitHub URL format"))>>
            ELSE pc' = "fetching" /\ target' = match /\ response' = response
    /\ UNCHANGED <<request, github, repo_scans, tasks, gateVars, statements, fetched,
                   scoreVars, typoVars, platVars, deep_scans, extraVars>>

\* fetchRepoData settles: the outer catch answers a rejection, a snapshot
\* without repo metadata is answered 404, otherwise the analyzers start
FetchRepoData ==
    /\ pc = "fetching"
    /\ fetched' = fetched \cup repoDataRequests(target[1].owner \o "/" \o target[1].repoSlug,
                                                target[1].owner)
    /\ LET repoData == fetchRepoData(github) IN
       IF repoData.rejected
       THEN pc' = "done" /\ data' = data /\ response' = <<InternalServerError>>
       ELSE /\ data' = repoData.value
            /\ IF repoData.value.repo = Null
               THEN /\ pc' = "done"
                    /\ response' = <<HttpResponse(404,
                                        ErrorBody("Repository not found or unavailable"))>>
               ELSE pc' = "analyzing" /\ response' = response
    /\ UNCHANGED <<variant, allVulnerabilities, vulnSummary, quality, now, results,
                   request, github, target, repo_scans, tasks, gateVars, statements,
                   typoVars, platVars, deep_scans, extraVars>>

\* the analyzers settle; the handler aggregates, scores and sends the insert
Analyze ==
    /\ pc = "analyzing"
    /\ LET analysis == analyze(variant, data, github) IN
       IF analysis.rejected
       THEN /\ pc' = "done" /\ response' = <<InternalServerError>>
            /\ UNCHANGED <<allVulnerabilities, vulnSummary, quality, results>>
       ELSE LET summary == IF variant = "C"
                           THEN vulnerabilitySummary_C(analysis.vulnerabilities)
                           ELSE calculateVulnerabilitySummary(analysis.vulnerabilities)
                metrics == IF analysis.metrics = Null THEN Null ELSE analysis.metrics[1]
            IN  /\ allVulnerabilities' = analysis.vulnerabilities
                /\ vulnSummary' = summary
                /\ quality' = metrics
                /\ results' = Append(results,
                                     [at |-> now,
                                      result |-> scoreVariant(variant, data,
                                                              analysis.vulnerabilities,
                                                              summary, metrics, now)])
                /\ pc' = "storing" /\ response' = response
    /\ UNCHANGED <<variant, data, now, request, github, target, repo_scans, tasks,
                   gateVars, statements, fetched,
                   typoVars, platVars, deep_scans, extraVars>>

\* an answer that reports the scan whatever the insert returned
insertAnswerWithScan(dbError, scanResult, access_info) ==
    HttpResponse(IF dbError THEN 500 ELSE 200,
                 [success |-> ~dbError, scan |-> scanResult, access_info |-> access_info])

\* what the handler answers once the insert has settled
insertAnswer(dbError, scanResult, access_info) ==
    IF dbError
    THEN HttpResponse(500, ErrorBody("Failed to store scan results"))
    ELSE HttpResponse(200, [success |-> TRUE, scan |-> scanResult,
                            access_info |-> access_info])

\* the insert is sent and settles: the row is stored and returned, or dbError
\* is answered
Store ==
    /\ pc = "storing"
    /\ LET row == ScanRow(request.githubUrl[1],
                          target[1].owner \o "/" \o target[1].repoSlug,
                          results[Len(results)].result)
       IN  /\ statements' = Append(statements,
                                   [table |-> "repo_scans", op |-> "insert",
                                    id |-> Len(repo_scans) + 1, row |-> row])
           /\ repo_scans' = IF github.insert = "error" THEN repo_scans
                            ELSE Append(repo_scans, row)
           /\ response' = <<insertAnswer(github.insert = "error", row,
                                         IF variant = "C"
                                         THEN [has_token_access |-> FALSE,
                                               scans_remaining |-> Null]
                                         ELSE [has_token_access |->
                                                   accessCheck[1].has_token_access,
                                               scans_remaining |->
                                                   accessCheck[1].scans_remaining])>>
    /\ pc' = "done"
    /\ UNCHANGED <<request, github, target, tasks, gateVars, fetched,
                   scoreVars, typoVars, platVars, deep_scans, extraVars>>

-----------------------------------------------------------------------------
(* One scan request handled by one of the variants                         *)

GithubUrls == {
    Null,
    <<"https://github.com/acme/widget">>,
    <<"http://www.github.com/acme-labs/widget.js/">>,
    <<"https://github.com/acme">>,
    <<"github.com/acme/widget">>,
    <<"https://gitlab.com/acme/widget">>,
    <<"https://github.com/acme/widget/tree/main">> }

ScanRequest(githubUrl, walletAddress, tokenBalance, clientIp) ==
    [githubUrl |-> githubUrl, walletAddress |-> walletAddress,
     tokenBalance |-> tokenBalance, clientIp |-> clientIp]

Gate == TokenGateConfig(TRUE, <<"0xc0ffee">>, 1000, <<"0xabc1">>, TRUE, 3)

ClientIp == "203.0.113.7"

Holder == "0xD00D"

\* the token gate a request meets: the configuration row, the access log of
\* the day and who asks.  No configuration and a disabled gate; a whitelisted
\* wallet written in capitals that has used up its free scans; a token holder seen before today, seen
\* yesterday and logged twice today; free scans by wallet and by address,
\* within and beyond the quota; a gate without free scans; a wallet that
\* states a balance it does not own
\* balanceOf on the token contract: the holder owns the minimum, or nothing
Funded == [wallet \in {Holder, "0xABC1"} |-> IF wallet = Holder THEN 1000 ELSE 0]

Unfunded == [wallet \in {Holder, "0xABC1"} |-> 0]

GateCases == {
    [config |-> Null, log |-> << >>, walletAddress |-> Null, tokenBalance |-> Null, chain |-> Funded],
    [config |-> <<[Gate EXCEPT !.enabled = FALSE]>>, log |-> << >>,
     walletAddress |-> <<Holder>>, tokenBalance |-> <<5000>>, chain |-> Funded],
    [config |-> <<Gate>>, log |-> <<AccessLog(1, <<"0xABC1">>, ClientIp, FALSE, 3, Clock1)>>,
     walletAddress |-> <<"0xABC1">>, tokenBalance |-> Null, chain |-> Funded],
    [config |-> <<Gate>>, log |-> <<AccessLog(1, <<Holder>>, ClientIp, TRUE, 4, Clock1)>>,
     walletAddress |-> <<Holder>>, tokenBalance |-> <<1000>>, chain |-> Funded],
    [config |-> <<Gate>>, log |-> <<AccessLog(1, <<Holder>>, ClientIp, TRUE, 4, Clock1 - 1)>>,
     walletAddress |-> <<Holder>>, tokenBalance |-> <<1000>>, chain |-> Funded],
    [config |-> <<Gate>>,
     log |-> <<AccessLog(1, <<Holder>>, "198.51.100.2", TRUE, 1, Clock1),
               AccessLog(2, <<Holder>>, ClientIp, TRUE, 1, Clock1)>>,
     walletAddress |-> <<Holder>>, tokenBalance |-> <<1000>>, chain |-> Funded],
    [config |-> <<Gate>>, log |-> <<AccessLog(1, <<Holder>>, ClientIp, FALSE, 1, Clock1)>>,
     walletAddress |-> <<Holder>>, tokenBalance |-> <<999>>, chain |-> Funded],
    [config |-> <<Gate>>, log |-> << >>, walletAddress |-> Null, tokenBalance |-> Null, chain |-> Funded],
    [config |-> <<Gate>>, log |-> <<AccessLog(1, Null, ClientIp, FALSE, 3, Clock1)>>,
     walletAddress |-> Null, tokenBalance |-> <<5000>>, chain |-> Funded],
    [config |-> <<[Gate EXCEPT !.contract_address = Null]>>,
     log |-> <<AccessLog(1, Null, ClientIp, FALSE, 2, Clock1)>>,
     walletAddress |-> <<Holder>>, tokenBalance |-> <<5000>>, chain |-> Funded],
    [config |-> <<[Gate EXCEPT !.rate_limit_enabled = FALSE]>>, log |-> << >>,
     walletAddress |-> <<Holder>>, tokenBalance |-> <<10>>, chain |-> Funded],
    [config |-> <<Gate>>, log |-> << >>, walletAddress |-> <<Holder>>,
     tokenBalance |-> <<5000>>, chain |-> Unfunded] }

\* a token holder the gate has not seen today
TokenHolder ==
    [config |-> <<Gate>>, log |-> << >>, walletAddress |-> <<Holder>>,
     tokenBalance |-> <<1000>>, chain |-> Funded]

ScanListing == <<
    File(".env", "file", 120), File("package.json", "file", 900),
    File("requirements.txt", "file", 60), File("index.ts", "file", 2500),
    File("server.js", "file", 61000), File("app.config.js", "file", 300),
    File("Dockerfile", "file", 400), File("nginx.conf", "file", 500),
    File(".gitlab-ci.yml", "file", 350), File("README.md", "file", 3000), WorkflowCi >>

ScanListings == {<< >>, <<File(".env", "file", 120)>>, NodeProject, ScanListing}

NoMetric == [complexity |-> 1, comment_ratio |-> 0]

Text(matches) == <<Content(matches, << >>, << >>, NoMetric, Null)>>

\* the files GitHub serves with their content
ScanFiles ==
    [p \in {".env", "package.json", "requirements.txt", "index.ts", "server.js",
            "app.config.js", "Dockerfile", "nginx.conf", ".gitlab-ci.yml", WorkflowCi.path} |->
        CASE p = ".env" -> Text({"password|passwd|pwd", "token"})
          [] p = "package.json" ->
                <<Content({}, << >>, << >>, NoMetric,
                          <<Package(<<"typscrip", "event-stream", "request">>, <<"gpl-tools">>,
                                    <<"react">>, {"request"}, <<"MIT">>)>>)>>
          [] p = "requirements.txt" ->
                <<Content({}, << >>, << >>, NoMetric, <<[lines |-> <<"PyCrypto", "flask">>]>>)>>
          [] p = "index.ts" ->
                <<Content({},
                          <<Vulnerability("critical", "code_pattern", "Potential hardcoded API key",
                                          "index.ts:3",
                                          "Hardcoded credentials should be moved to environment variables")>>,
                          <<Vulnerability("medium", "code_pattern", "Weak MD5 hash algorithm",
                                          "index.ts:12",
                                          "Use strong cryptographic algorithms like AES-256 or SHA-256")>>,
                          [complexity |-> 21, comment_ratio |-> 2], Null)>>
          [] p = "server.js" ->
                <<Content({"cors\\s*\\(\\s*\\{[\\s\\S]*origin:\\s*\\*"}, << >>, << >>,
                          [complexity |-> 19, comment_ratio |-> 12], Null)>>
          [] p = "app.config.js" ->
                <<Content({"password [:=] \\w+"}, << >>, << >>,
                          [complexity |-> 2, comment_ratio |-> 0], Null)>>
          [] p = "Dockerfile" -> Text({"FROM\\s+.*:latest", "USER\\s+root"})
          [] p = "nginx.conf" -> Text({"server_tokens\\s+on"})
          [] p = ".gitlab-ci.yml" -> Text({"script:.*\\$\\{?[A-Z_]+"})
          [] OTHER -> Text({"actions/checkout@v[12]", "on: push", "github.head_ref",
                            "pull_request_target", "checkout"})]

NoFiles == [p \in {} |-> Null]

ScanRepo == Repo(FALSE, MitLicense, PlainCommunity,
                 <<[secret_scanning |-> Feature(<<"disabled">>),
                    dependabot_security_updates |-> Null]>>)

ScanOwner == [type |-> "User", created_at |-> 1200, public_repos |-> 6, followers |-> 30,
              company |-> "", blog |-> "https://example.org"]

\* a request answered with a non-success status (404 and another one), or
\* not answered at all
Failures == {Response("not_found", Null), Response("http_error", Null),
             Response("network_error", Null)}

SecondaryFailures == {Response("http_error", Null), Response("network_error", Null)}

Api(repo, contents, commits, contributors, owner, files, main, master, insert) ==
    [repo |-> repo, contents |-> contents, commits |-> commits,
     contributors |-> contributors, owner |-> owner, files |-> files,
     main |-> main, master |-> master, insert |-> insert]

Ok(body) == Response("ok", body)

HealthyApi(listing, files, main, master, insert) ==
    Api(Ok(<<ScanRepo>>), Ok(listing), Ok(Active), Ok(PlainCommunity.contributors),
        Ok(<<ScanOwner>>), files, main, master, insert)

BranchCases == {
    [main |-> Response("not_ok", Null), master |-> Response("not_ok", Null)],
    [main |-> Ok(<<Branch(FALSE, Null)>>), master |-> Response("not_ok", Null)],
    [main |-> Response("network_error", Null), master |-> Ok(Null)] }

Unprotected == Ok(<<Branch(FALSE, Null)>>)

\* the scans of the model: every URL and access answer on a healthy
\* repository; every combination of failing requests of fetchRepoData; every
\* listing with and without file contents, branch answers and insert outcome;
\* a repository without files and commits
Scans ==
    {[gate |-> gate, githubUrl |-> url,
      github |-> HealthyApi(NodeProject, ScanFiles, Unprotected, Unprotected, "ok")] :
        url \in GithubUrls, gate \in GateCases}
    \cup
    {[gate |-> TokenHolder, githubUrl |-> <<"https://github.com/acme/widget">>,
      github |-> Api(repo, contents, commits, contributors, owner, ScanFiles,
                     Unprotected, Unprotected, "ok")] :
        repo \in {Ok(<<ScanRepo>>)} \cup Failures,
        contents \in {Ok(ScanListing)} \cup SecondaryFailures,
        commits \in {Ok(Active)} \cup SecondaryFailures,
        contributors \in {Ok(PlainCommunity.contributors)} \cup SecondaryFailures,
        owner \in {Ok(<<ScanOwner>>)} \cup SecondaryFailures}
    \cup
    {[gate |-> TokenHolder, githubUrl |-> <<"https://github.com/acme/widget">>,
      github |-> HealthyApi(listing, files, b.main, b.master, insert)] :
        listing \in ScanListings, files \in {NoFiles, ScanFiles}, b \in BranchCases,
        insert \in {"ok", "error"}}
    \cup
    {[gate |-> TokenHolder, githubUrl |-> <<"https://github.com/acme/widget">>,
      github |-> Api(Ok(<<ScanRepo>>), Ok(<< >>), Ok(<< >>), contributors, owner, NoFiles,
                     b.main, b.master, insert)] :
        contributors \in {Ok(<< >>), Ok(PlainCommunity.contributors)},
        owner \in {Ok(<<ScanOwner>>), Response("not_found", Null)},
        b \in BranchCases, insert \in {"ok", "error"}}

InitScan ==
    /\ IdleDeepScans /\ IdleExtra
    /\ IdleTypo /\ IdlePlatform
    /\ variant \in Variants
    /\ \E scan \in Scans :
           /\ request = ScanRequest(scan.githubUrl, scan.gate.walletAddress,
                                    scan.gate.tokenBalance, ClientIp)
           /\ token_gate_config = scan.gate.config
           /\ chain = scan.gate.chain
           /\ scan_access_log = scan.gate.log
           /\ github = scan.github
    /\ data = Null /\ allVulnerabilities = << >> /\ vulnSummary = Null /\ quality = Null
    /\ now = Clock1 /\ results = << >>
    /\ pc = "received" /\ target = Null /\ response = Null /\ repo_scans = << >>
    /\ tasks = Null /\ accessCheck = Null /\ statements = << >> /\ fetched = {}

NextScan == CheckAccess \/ ValidateUrl \/ FetchRepoData \/ Analyze \/ Store

SpecScan == InitScan /\ [][NextScan]_vars

-----------------------------------------------------------------------------
(* Properties of a scan                                                    *)

\* the analyzers have settled and the handler has built its vulnerability list
Scanned == pc \in {"storing", "done"} /\ results # << >>

EnvListed == data # Null /\ \E i \in DOMAIN data.contents : data.contents[i].name = ".env"

EnvFinding ==
    \E i \in DOMAIN allVulnerabilities :
        /\ allVulnerabilities[i].severity = "critical"
        /\ allVulnerabilities[i].location = ".env"

\* C5: whenever the file listing has an entry named .env, the scan's
\* vulnerability list has a critical finding located at ".env", in every
\* handler variant and whether or not the file's content can be fetched
C5_EnvFileAlwaysCritical == (Scanned /\ EnvListed) => EnvFinding

SecondaryFetches == {"contents", "commits", "contributors", "owner"}

defaultOf(k) == IF k = "owner" THEN Null ELSE << >>

SecondaryFailed == \E k \in SecondaryFetches : github[k].outcome # "ok"

\* C6: when a secondary fetch fails, by status or at the network level,
\* while the metadata fetch succeeds, the scan does not fail: the failed item
\* takes its default, the others keep what was fetched and a ScoringResult is
\* produced
C6_SecondaryFailureTolerated ==
    (pc = "done" /\ target # Null /\ github.repo.outcome = "ok" /\ SecondaryFailed)
        => /\ results # << >>
           /\ response[1] # InternalServerError
           /\ \A k \in SecondaryFetches :
                  data[k] = IF github[k].outcome = "ok" THEN github[k].body ELSE defaultOf(k)

NotFoundAnswered ==
    /\ response # Null
    /\ response[1] = HttpResponse(404, ErrorBody("Repository not found or unavailable"))

\* the requests of fetchRepoData were sent
Fetched == pc = "done" /\ target # Null

NetworkFailure ==
    \E k \in SecondaryFetches \cup {"repo"} : github[k].outcome = "network_error"

scoringResult == results[Len(results)].result

FetchCalls == SecondaryFetches \cup {"repo"}

\* C11: in the 0-1 engine (variant A) confidence is 0.6 * (fetch calls that
\* succeeded / 5) + 0.4 * c, with c = 0.8 when the mean of the safety and
\* legitimacy totals is above 30 and 0.5 otherwise (in hundredths here)
C11_ConfidenceFromFetchSuccesses ==
    (Scanned /\ variant = "A") =>
        LET succeeded == Cardinality({k \in FetchCalls : github[k].outcome = "ok"})
            b == scoringResult.breakdown
            c == IF b.safety.total + b.legitimacy.total > 2 * 3000 THEN 80 ELSE 50
        IN  100 * scoringResult.confidence = 60 * 20 * succeeded + 40 * c

\* the metadata was found, the listing and the commit list are empty
EmptyRepository ==
    data # Null /\ data.repo # Null /\ data.contents = << >> /\ data.commits = << >>

\* no request of the scan failed at the network level and the insert succeeded
Undisturbed ==
    /\ ~NetworkFailure
    /\ github.main.outcome # "network_error"
    /\ github.insert = "ok"

\* C12: the scan of a repository without files and commits completes
\* without error with a complete ScoringResult: every sub-score in [0,100],
\* code-quality metrics with total_files_analyzed = 0, risk_factors non-empty
C12_EmptyRepositoryScored ==
    (pc = "done" /\ EmptyRepository /\ Undisturbed) =>
        /\ response[1].status = 200
        /\ ScoresInRange(response[1].body.scan)
        /\ response[1].body.scan.risk_factors # << >>
        /\ response[1].body.scan.code_quality_metrics # Null
        /\ response[1].body.scan.code_quality_metrics[1].total_files_analyzed = 0

\* C13: when the repo metadata has archived = true, maintenance_posture is
\* exactly 0 for every commit list, in every scoring-engine variant
C13_ArchivedMaintenanceZero ==
    \A i \in DOMAIN results :
        (data # Null /\ data.repo # Null /\ data.repo[1].archived)
            => results[i].result.breakdown.safety.maintenance_posture = 0

\* an archived repository with five commits of the last 90 days was scored
C13_Witness ==
    /\ results # << >>
    /\ data.repo[1].archived
    /\ data.commits = Active
    /\ results[1].result.breakdown.safety.maintenance_posture = 0

SummaryConsistent(s) ==
    /\ s.total_count = s.by_type.dependency + s.by_type.code_pattern + s.by_type.configuration
    /\ s.total_count = s.critical_count + s.high_count + s.medium_count + s.low_count

\* C14: for every finding list, the empty one included, the computed summary
\* has total_count = sum of by_type = sum of the four severity counts; the
\* bundled handler's summary is that of its finding list
C14_SummaryCountsAgree ==
    /\ SummaryConsistent(vulnerabilitySummary_C(allVulnerabilities))
    /\ (variant = "C" /\ Scanned) => vulnSummary = vulnerabilitySummary_C(allVulnerabilities)

\* the bundled handler summarised a list with two findings of different
\* severity and type
C14_Witness ==
    /\ variant = "C" /\ Scanned
    /\ vulnSummary.total_count = 2
    /\ vulnSummary.critical_count = 1 /\ vulnSummary.medium_count = 1
    /\ vulnSummary.by_type.configuration = 1 /\ vulnSummary.by_type.dependency = 1

PopularNames == {popularPackages[p].legit : p \in DOMAIN popularPackages}

\* a finding of checkTyposquatting about the dependency, of either kind
TyposquattingFinding(depName) ==
    \E i \in DOMAIN typoFindings[1] :
        \/ \E legit \in PopularNames :
               typoFindings[1][i].description =
                   "Potential typosquatting: " \o depName \o " looks similar to " \o legit
        \/ typoFindings[1][i].description = "Suspicious package naming pattern: " \o depName

\* C15: a dependency whose name is exactly a curated popular package name
\* never produces a typosquatting finding
C15_PopularNameNotFlagged ==
    \A depName \in CheckedDeps \cap PopularNames : ~TyposquattingFinding(depName)

\* typescript was checked next to a misspelling that is flagged
C15_Witness ==
    /\ CheckedDeps = {"typescript", "typscrip"}
    /\ TyposquattingFinding("typscrip")
    /\ ~TyposquattingFinding("typescript")

-----------------------------------------------------------------------------
(* The analyzer tasks of one scan and the handler's join on them           *)

\* the analyzers a handler calls, in the order of its Promise.all (variants
\* A and B) or of its awaits (the bundled handler)
analyzersOf(v) ==
    CASE v = "A" -> <<"scanDependencyVulnerabilities", "detectCodePatterns">>
      [] v = "B" -> <<"scanDependencyVulnerabilities", "detectCodePatterns",
                      "scanConfigurationVulnerabilities", "scanSupplyChain",
                      "scanGitHubSecurity", "detectAdvancedPatterns", "analyzeCodeQuality">>
      [] v = "C" -> <<"scanBasicSecurity", "analyzeCodeQuality">>

\* the array of Promise.all is built by calling every analyzer: all tasks
\* run; the bundled handler awaits scanBasicSecurity before it calls
\* analyzeCodeQuality
launched(v) ==
    [a \in {analyzersOf(v)[i] : i \in DOMAIN analyzersOf(v)} |->
        IF v = "C" /\ a = "analyzeCodeQuality" THEN "pending" ELSE "running"]

\* how the task of an analyzer settles on this repository
settled(a, d, api) ==
    IF /\ a = "scanGitHubSecurity"
       /\ scanGitHubSecurity(d.repo[1], d.contents, api.files, api.main, api.master).rejected
    THEN "rejected" ELSE "fulfilled"

anyJoined(ts) == \E a \in DOMAIN ts : ts[a] = "fulfilled"

\* the promise of Promise.all (and the last await of the bundled handler) is
\* fulfilled: every task is
joined(ts) == \A a \in DOMAIN ts : ts[a] = "fulfilled"

LaunchAnalyzers ==
    /\ pc = "analyzing" /\ tasks = Null
    /\ tasks' = launched(variant)
    /\ UNCHANGED <<request, github, pc, target, response, repo_scans, gateVars,
                   statements, fetched, scoreVars, typoVars, platVars, deep_scans, extraVars>>

\* one analyzer task runs to its end
AnalyzerSettles ==
    /\ tasks # Null
    /\ \E a \in DOMAIN tasks :
           /\ tasks[a] = "running"
           /\ tasks' = [tasks EXCEPT ![a] = settled(a, data, github)]
    /\ UNCHANGED <<request, github, pc, target, response, repo_scans, gateVars,
                   statements, fetched, scoreVars, typoVars, platVars, deep_scans, extraVars>>

\* the bundled handler resumes after await scanBasicSecurity(...)
AwaitNext ==
    /\ pc = "analyzing" /\ tasks # Null /\ variant = "C"
    /\ tasks["scanBasicSecurity"] = "fulfilled" /\ tasks["analyzeCodeQuality"] = "pending"
    /\ tasks' = [tasks EXCEPT !["analyzeCodeQuality"] = "running"]
    /\ UNCHANGED <<request, github, pc, target, response, repo_scans, gateVars,
                   statements, fetched, scoreVars, typoVars, platVars, deep_scans, extraVars>>

\* Promise.all rejects with the first rejection; the outer catch answers
JoinRejected ==
    /\ pc = "analyzing" /\ tasks # Null
    /\ \E a \in DOMAIN tasks : tasks[a] = "rejected"
    /\ pc' = "done" /\ response' = <<InternalServerError>>
    /\ UNCHANGED <<request, github, target, repo_scans, tasks, gateVars, statements,
                   fetched, scoreVars, typoVars, platVars, deep_scans, extraVars>>

\* the handler resumes after the join: allVulnerabilities and the summary
Aggregate ==
    /\ pc = "analyzing" /\ tasks # Null /\ joined(tasks)
    /\ LET analysis == analyze(variant, data, github) IN
       /\ allVulnerabilities' = analysis.vulnerabilities
       /\ vulnSummary' = IF variant = "C"
                         THEN vulnerabilitySummary_C(analysis.vulnerabilities)
                         ELSE calculateVulnerabilitySummary(analysis.vulnerabilities)
       /\ quality' = IF analysis.metrics = Null THEN Null ELSE analysis.metrics[1]
    /\ pc' = "aggregated"
    /\ UNCHANGED <<variant, data, now, results, request, github, target, response,
                   repo_scans, tasks, gateVars, statements, fetched, typoVars,
                   platVars, deep_scans, extraVars>>

\* scoreRepository on the aggregated findings
ScoreScan ==
    /\ pc = "aggregated"
    /\ results' = Append(results,
                         [at |-> now,
                          result |-> scoreVariant(variant, data, allVulnerabilities,
                                                  vulnSummary, quality, now)])
    /\ pc' = "storing"
    /\ UNCHANGED <<variant, data, allVulnerabilities, vulnSummary, quality, now,
                   request, github, target, response, repo_scans, tasks, gateVars,
                   statements, fetched, typoVars, platVars, deep_scans, extraVars>>

InitAnalyzers ==
    /\ IdleDeepScans /\ IdleExtra
    /\ IdleTypo /\ IdlePlatform
    /\ variant \in Variants
    /\ request = ScanRequest(<<"https://github.com/acme/widget">>, TokenHolder.walletAddress,
                             TokenHolder.tokenBalance, ClientIp)
    /\ token_gate_config = TokenHolder.config /\ chain = TokenHolder.chain
    /\ LET check == checkAccess(TokenHolder.config, TokenHolder.log, request.walletAddress,
                                ClientIp, request.tokenBalance, Clock1)
       IN  /\ accessCheck = IF variant = "C" THEN Null ELSE <<check.result>>
           /\ statements = IF variant = "C" THEN << >> ELSE check.sent
           /\ scan_access_log = IF variant = "C" THEN TokenHolder.log
                                ELSE logged(TokenHolder.log, check.sent[1])
    /\ fetched = repoDataRequests("acme/widget", "acme")
    /\ \E listing \in {<< >>, ScanListing}, b \in BranchCases :
           github = HealthyApi(listing, ScanFiles, b.main, b.master, "ok")
    /\ data = fetchRepoData(github).value
    /\ allVulnerabilities = << >> /\ vulnSummary = Null /\ quality = Null
    /\ now = Clock1 /\ results = << >>
    /\ pc = "analyzing" /\ target = <<[owner |-> "acme", repoSlug |-> "widget"]>>
    /\ response = Null /\ repo_scans = << >> /\ tasks = Null

NextAnalyzers ==
    LaunchAnalyzers \/ AnalyzerSettles \/ AwaitNext \/ JoinRejected \/ Aggregate \/ ScoreScan

SpecAnalyzers == InitAnalyzers /\ [][NextAnalyzers]_vars

\* C16: aggregation and scoring start only after every analyzer task of the
\* scan has completed: whenever the aggregator or the scoring engine has run,
\* no task is pending or running
C16_JoinBeforeAggregation ==
    (pc \in {"aggregated", "storing"} \/ results # << >> \/ vulnSummary # Null)
        => /\ tasks # Null
           /\ \A a \in DOMAIN tasks : tasks[a] \in {"fulfilled", "rejected"}

\* the seven analyzers of part_009 were joined and the result scored
C16_Witness ==
    /\ variant = "B" /\ pc = "storing" /\ results # << >>
    /\ Cardinality(DOMAIN tasks) = 7
    /\ joined(tasks)

-----------------------------------------------------------------------------
(* What one scan request writes to the database                            *)

ResultInsert(st) == st.table = "repo_scans" /\ st.op = "insert"

\* C17: during one scan request the only mutation of persistent state is a
\* single insert of the ScoringResult, sent once and only after analysis and
\* scoring have completed; no other row is inserted or updated
C17_OnlyWriteIsResultInsert ==
    /\ \A i \in DOMAIN statements : ResultInsert(statements[i])
    /\ Len(statements) <= 1
    /\ statements # << >> => results # << >> /\ pc = "done"
    /\ (response # Null /\ response[1].status = 200) => Len(statements) = 1

GateEnabled == token_gate_config # Null /\ token_gate_config[1].enabled

\* C17 as the handlers behave: a scan request sends at most two statements.
\* In the variants with a token gate, an allowed request through an enabled
\* gate first has its access logged by one insert or update on
\* scan_access_log, before the URL is looked at; the ScoringResult is then
\* inserted in repo_scans at most once, after scoring; nothing else is written
C17_AccessLogThenResultInsert ==
    LET logs == SelectSeq(statements, LAMBDA st : ~ResultInsert(st))
        inserts == SelectSeq(statements, ResultInsert)
    IN  /\ Len(logs) <= 1 /\ Len(inserts) <= 1
        /\ logs # << >> =>
               /\ statements[1] = logs[1]
               /\ logs[1].table = "scan_access_log" /\ logs[1].op \in {"insert", "update"}
               /\ variant # "C" /\ GateEnabled
        /\ (accessCheck # Null /\ accessCheck[1].allowed /\ GateEnabled) => Len(logs) = 1
        /\ (accessCheck # Null /\ ~accessCheck[1].allowed) => statements = << >>
        /\ inserts # << >> => results # << >> /\ pc = "done"
        /\ (response # Null /\ response[1].status = 200) => Len(inserts) = 1
        /\ Len(repo_scans) <= 1

\* a scan completed after the access of a known token holder was counted
C17_Witness ==
    /\ response # Null /\ response[1].status = 200
    /\ Len(statements) = 2
    /\ statements[1].table = "scan_access_log" /\ statements[1].op = "update"
    /\ statements[1].row.scan_count = 5
    /\ ResultInsert(statements[2])
    /\ scan_access_log = <<statements[1].row>>

-----------------------------------------------------------------------------
(* Requests whose repository identifier is not a repository URL            *)

\* the identifier reads http(s)://(www.)?<host>/<owner>/<repo>, with or
\* without a closing slash: three non-empty segments after the scheme
HasRepositoryShape(githubUrl) ==
    /\ githubUrl # Null
    /\ LET url == githubUrl[1]
           afterScheme == IF StartsWith(url, "https://") THEN <<Drop(url, 8)>>
                          ELSE IF StartsWith(url, "http://") THEN <<Drop(url, 7)>>
                          ELSE Null
       IN  /\ afterScheme # Null
           /\ LET raw == IF StartsWith(afterScheme[1], "www.") THEN Drop(afterScheme[1], 4)
                         ELSE afterScheme[1]
                  path == IF EndsWith(raw, "/") THEN SubSeq(raw, 1, Len(raw) - 1) ELSE raw
                  slashes == {i \in 1..Len(path) : CharAt(path, i) = "/"}
              IN  /\ Cardinality(slashes) = 2
                  /\ \A i \in slashes : i > 1 /\ i < Len(path) /\ i + 1 \notin slashes

InvalidInput == HttpResponse(400, ErrorBody("Invalid GitHub URL format"))

\* no request has gone to GitHub and no analyzer has run
NothingRequested ==
    /\ fetched = {} /\ tasks = Null /\ data = Null
    /\ allVulnerabilities = << >> /\ results = << >>

\* C18: a request whose repository identifier does not have the shape
\* http(s)://(www.)?<host>/<owner>/<repo> is rejected as invalid input, and
\* no request to the hosting platform is issued for it before or after
C18_MalformedIdentifierRejected ==
    ~HasRepositoryShape(request.githubUrl) =>
        /\ NothingRequested
        /\ pc = "done" => response = <<InvalidInput>>

-----------------------------------------------------------------------------
(* A scan whose insert fails                                               *)

InsertFailed == pc = "done" /\ results # << >> /\ github.insert = "error"

\* C19: when the insert of the scan record fails after scoring succeeded, the
\* handler answers a generic failure that carries no score or finding data,
\* and the insert is not sent a second time
C19_FailedInsertNotRetried ==
    InsertFailed =>
        /\ response # Null /\ response[1].status = 500
        /\ response[1].body = [error |-> "Failed to store scan results"]
        /\ Len(SelectSeq(statements, ResultInsert)) = 1
        /\ repo_scans = << >>

\* a scored repository with findings whose insert failed
C19_Witness ==
    /\ InsertFailed
    /\ scoringResult.vulnerabilities # << >>
    /\ response = <<HttpResponse(500, ErrorBody("Failed to store scan results"))>>
    /\ statements[Len(statements)].row.overall_score = scoringResult.overall_score

-----------------------------------------------------------------------------
(* Deep scans (src/lib/deepScan.ts) and their table                        *)

MaxDeepScans == 2

\* status text NOT NULL ... CHECK (status IN (...))
DeepScanStatuses == {"pending", "processing", "completed", "failed", "cancelled"}

DeepScan(id, repository_url, status) ==
    [id |-> id, repository_url |-> repository_url, status |-> status,
     error_message |-> Null, started_at |-> Null, completed_at |-> Null,
     scan_duration_seconds |-> Null]

\* the trigger deep_scan_timing_trigger, BEFORE UPDATE ON deep_scans
update_deep_scan_started_at(old, new, clock) ==
    LET started == IF new.status = "processing" /\ old.status # "processing"
                   THEN [new EXCEPT !.started_at = <<clock>>] ELSE new
    IN  IF started.status \in {"completed", "failed"} /\ started.completed_at = Null
        THEN [started EXCEPT
                !.completed_at = <<clock>>,
                !.scan_duration_seconds =
                    IF started.started_at # Null THEN <<clock - started.started_at[1]>>
                    ELSE @]
        ELSE started

\* updateScanStatus: update(updates).eq('id', scanId), where updates holds
\* the status and, when errorMessage is truthy, error_message
updateScanStatus(table, scanId, status, errorMessage, clock) ==
    [i \in DOMAIN table |->
        IF table[i].id = scanId
        THEN LET updates == IF errorMessage # Null /\ errorMessage[1] # ""
                            THEN [table[i] EXCEPT !.status = status,
                                                  !.error_message = errorMessage]
                            ELSE [table[i] EXCEPT !.status = status]
             IN  update_deep_scan_started_at(table[i], updates, clock)
        ELSE table[i]]

\* createScan: a row is inserted with status 'pending'
CreateScan ==
    /\ Len(deep_scans) < MaxDeepScans
    /\ \E repository_url \in {"https://github.com/acme/widget"} :
           deep_scans' = Append(deep_scans,
                                DeepScan(Len(deep_scans) + 1, repository_url, "pending"))
    /\ UNCHANGED <<scoreVars, typoVars, platVars, scanVars, extraVars>>

\* updateScanStatus(scanId, status, errorMessage) called by a worker or a page
UpdateScanStatus ==
    /\ \E scanId \in 1..MaxDeepScans, status \in DeepScanStatuses,
          errorMessage \in {Null, <<"">>, <<"analysis timed out">>} :
           deep_scans' = updateScanStatus(deep_scans, scanId, status, errorMessage, now)
    /\ UNCHANGED <<scoreVars, typoVars, platVars, scanVars, extraVars>>

InitDeepScans ==
    /\ IdleScore /\ IdleTypo /\ IdlePlatform /\ IdleScan /\ IdleExtra
    /\ deep_scans = << >>

NextDeepScans == CreateScan \/ UpdateScanStatus

SpecDeepScans == InitDeepScans /\ [][NextDeepScans]_vars

StatusMoves == {<<"pending", "processing">>, <<"processing", "completed">>,
                <<"processing", "failed">>}

\* C20: the status of a scan only ever moves pending -> processing ->
\* completed or pending -> processing -> failed; no other transition occurs,
\* a failed scan never changes status again, and a new scan starts pending
C20_StatusOnlyMovesForward ==
    [][/\ \A i \in DOMAIN deep_scans :
              /\ i \in DOMAIN deep_scans'
              /\ \/ deep_scans'[i].status = deep_scans[i].status
                 \/ <<deep_scans[i].status, deep_scans'[i].status>> \in StatusMoves
       /\ \A i \in DOMAIN deep_scans' \ DOMAIN deep_scans :
              deep_scans'[i].status = "pending"]_vars

-----------------------------------------------------------------------------
(* The file contents an analyzer requests                                  *)

\* file.path || file.name of every file of a loop
pathsOf(sample) == [i \in DOMAIN sample |-> pathOf(sample[i])]

\* the one request made when the listing holds the file
whenListed(contents, name) ==
    IF Some(contents, LAMBDA f : f.name = name) THEN <<name>> ELSE << >>

\* the paths handed to fetchFileContent by an analyzer, one per call, in the
\* order of a sequential run
contentRequests(analyzer, contents) ==
    CASE analyzer \in {"detectCodePatterns", "detectAdvancedPatterns"} ->
            pathsOf(Slice(codeFilesOf(contents), MaxPatternFiles))
      [] analyzer = "analyzeCodeQuality" ->
            pathsOf(Slice(codeFilesOf(contents), MaxQualityFiles))
      [] analyzer = "scanConfigurationVulnerabilities" ->
            whenListed(contents, ".env") \o pathsOf(configFilesOf(contents))
            \o pathsOf(dockerfilesOf(contents))
            \o [i \in DOMAIN workflowFilesOf(contents) |-> workflowFilesOf(contents)[i].path]
            \o whenListed(contents, ".gitlab-ci.yml")
            \o pathsOf(nginxConfigsOf(contents))
            \o pathsOf(Slice(expressFilesOf(contents), MaxExpressFiles))
      [] analyzer = "scanSupplyChain" ->
            whenListed(contents, "package.json")
            \o whenListed(contents, "package.json") \o whenListed(contents, "requirements.txt")
            \o whenListed(contents, "package.json") \o whenListed(contents, "package.json")
      [] analyzer = "scanGitHubSecurity" ->
            [i \in DOMAIN workflowFilesOf(contents) |-> workflowFilesOf(contents)[i].path]

FetchingAnalyzers == {"detectCodePatterns", "detectAdvancedPatterns", "analyzeCodeQuality",
                      "scanConfigurationVulnerabilities", "scanSupplyChain",
                      "scanGitHubSecurity"}

MaxCandidates == 32

\* n files of a kind: code files, configuration files, Dockerfiles, workflows
Candidates(kind, n) ==
    [i \in 1..n |->
        CASE kind = "code" -> File("module" \o ToString(i) \o ".ts", "file", 1500)
          [] kind = "config" -> File("svc" \o ToString(i) \o ".config.json", "file", 200)
          [] kind = "docker" -> File("Dockerfile." \o ToString(i), "file", 300)
          [] kind = "workflow" ->
                File(".github/workflows/job" \o ToString(i) \o ".yml", "file", 500)]

CandidateKinds == {"code", "config", "docker", "workflow"}

\* an analyzer runs on the listing
RunAnalyzer ==
    /\ contentFetches # Null
    /\ \E analyzer \in FetchingAnalyzers :
           /\ contentFetches[analyzer] = Null
           /\ contentFetches' =
                  [contentFetches EXCEPT ![analyzer] = <<contentRequests(analyzer, data.contents)>>]
    /\ UNCHANGED <<scoreVars, typoVars, platVars, scanVars, deep_scans, clients, token_locks,
                   poll, subchecks, sharedVulns>>

\* listings with few candidate files, with as many as the largest cap and
\* with more
InitFetches ==
    /\ IdleTypo /\ IdlePlatform /\ IdleScan /\ IdleDeepScans
    /\ clients = << >> /\ token_locks = << >> /\ poll = Null
    /\ subchecks = Null /\ sharedVulns = << >>
    /\ variant = "B"
    /\ \E kind \in CandidateKinds, n \in {0, 3, MaxPatternFiles, MaxPatternFiles + 1,
                                          MaxQualityFiles, MaxCandidates} :
           data = Snapshot(<<ScanRepo>>, ScanListing \o Candidates(kind, n), << >>, << >>, Null)
    /\ allVulnerabilities = << >> /\ vulnSummary = Null /\ quality = Null
    /\ now = Clock1 /\ results = << >>
    /\ contentFetches = [analyzer \in FetchingAnalyzers |-> Null]

NextFetches == RunAnalyzer

SpecFetches == InitFetches /\ [][NextFetches]_vars

\* the cap on the content fetches of one analyzer in one scan: the first 20
\* candidate files for the two pattern detectors, the first 30 for the
\* code-quality analyzer, the largest cap of the code
FetchCap(analyzer) ==
    IF analyzer \in {"detectCodePatterns", "detectAdvancedPatterns"}
    THEN MaxPatternFiles ELSE MaxQualityFiles

\* C21: within one scan every analyzer that fetches file contents issues at
\* most a fixed, capped number of content fetches, however many candidate
\* files the listing contains
C21_ContentFetchesCapped ==
    contentFetches # Null =>
        \A analyzer \in FetchingAnalyzers :
            contentFetches[analyzer] # Null
                => Len(contentFetches[analyzer][1]) <= FetchCap(analyzer)

-----------------------------------------------------------------------------
(* The decision of the token gate                                          *)

\* the free scans the log counts today for the requester
UsedToday ==
    LET who == identifierOf(request.walletAddress, request.clientIp)
        counted == {i \in DOMAIN scan_access_log :
                       /\ \/ scan_access_log[i].wallet_address = <<who>>
                          \/ scan_access_log[i].ip_address = who
                       /\ scan_access_log[i].scan_date = now
                       /\ ~scan_access_log[i].has_token_access}
        sum[S \in SUBSET counted] ==
            IF S = {} THEN 0
            ELSE LET i == CHOOSE j \in S : TRUE
                 IN  scan_access_log[i].scan_count + sum[S \ {i}]
    IN  sum[counted]

Whitelisted ==
    /\ request.walletAddress # Null
    /\ \E i \in DOMAIN token_gate_config[1].whitelist_addresses :
           token_gate_config[1].whitelist_addresses[i] = ToLower(request.walletAddress[1])

StatedHolder ==
    /\ request.walletAddress # Null /\ request.tokenBalance # Null
    /\ token_gate_config[1].contract_address # Null
    /\ request.tokenBalance[1] >= token_gate_config[1].minimum_balance

\* the five steps of the access control logic, in their order
ExpectedAccess ==
    IF ~GateEnabled THEN [allowed |-> TRUE, unlimited |-> FALSE]
    ELSE IF Whitelisted THEN [allowed |-> TRUE, unlimited |-> TRUE]
    ELSE IF StatedHolder THEN [allowed |-> TRUE, unlimited |-> TRUE]
    ELSE IF token_gate_config[1].rate_limit_enabled
    THEN [allowed |-> UsedToday < token_gate_config[1].free_scans_per_day,
          unlimited |-> FALSE]
    ELSE [allowed |-> FALSE, unlimited |-> FALSE]

-----------------------------------------------------------------------------
(* checkAccess as a process: several requests of one client meet the gate. *)
(* Every await of checkAccess, checkRateLimit and logAccess is a step; the *)
(* statements of the calls in flight interleave on the database.           *)

MaxRequests == 4

AccessCall(pc_, hasTokenAccess, rateLimitCheck, existingLog, result) ==
    [pc |-> pc_, hasTokenAccess |-> hasTokenAccess, rateLimitCheck |-> rateLimitCheck,
     existingLog |-> existingLog, result |-> result]

Settled(call) == call.pc = "done"

\* a handler receives a request of the client and calls checkAccess, which
\* sends the select on token_gate_config
Arrive ==
    /\ Len(clients) < MaxRequests
    /\ clients' = Append(clients, AccessCall("config", FALSE, Null, Null, Null))
    /\ UNCHANGED <<scoreVars, typoVars, platVars, request, github, pc, target, response,
                   repo_scans, tasks, gateVars, statements, fetched, deep_scans,
                   token_locks, poll, contentFetches, subchecks, sharedVulns>>

\* the same, for a client that waits for the answer before it asks again
ArriveAfterAnswer ==
    /\ \A k \in DOMAIN clients : Settled(clients[k])
    /\ Arrive

\* the configuration arrives: the early returns of checkAccess, or the first
\* select on scan_access_log is sent
ConfigRead ==
    /\ \E k \in DOMAIN clients :
           /\ clients[k].pc = "config"
           /\ clients' = [clients EXCEPT ![k] =
                  IF token_gate_config = Null \/ ~token_gate_config[1].enabled
                  THEN AccessCall("done", FALSE, Null, Null,
                           <<AccessCheckResult(TRUE, FALSE,
                                 "Token gate disabled - open access", Null)>>)
                  ELSE IF /\ request.walletAddress # Null
                          /\ Contains(token_gate_config[1].whitelist_addresses,
                                      ToLower(request.walletAddress[1]))
                  THEN AccessCall("logAccess", TRUE, Null, Null,
                           <<AccessCheckResult(TRUE, TRUE, "Whitelisted address", Null)>>)
                  ELSE IF isTokenHolder(token_gate_config[1], request.walletAddress,
                                        request.tokenBalance)
                  THEN AccessCall("logAccess", TRUE, Null, Null,
                           <<AccessCheckResult(TRUE, TRUE, "Valid token holder", Null)>>)
                  ELSE IF token_gate_config[1].rate_limit_enabled
                  THEN AccessCall("checkRateLimit", FALSE, Null, Null, Null)
                  ELSE AccessCall("done", FALSE, Null, Null,
                           <<AccessCheckResult(FALSE, FALSE,
                                 "Token gate enabled. Token required for access.", Null)>>)]
    /\ UNCHANGED <<scoreVars, typoVars, platVars, request, github, pc, target, response,
                   repo_scans, tasks, gateVars, statements, fetched, deep_scans,
                   token_locks, poll, contentFetches, subchecks, sharedVulns>>

\* the select of checkRateLimit is answered from the log as it is now
RateLimitChecked ==
    /\ \E k \in DOMAIN clients :
           /\ clients[k].pc = "checkRateLimit"
           /\ LET rateLimitCheck ==
                      checkRateLimit(scan_access_log, request.walletAddress, request.clientIp,
                                     token_gate_config[1].free_scans_per_day, now)
              IN  clients' = [clients EXCEPT ![k] =
                      IF rateLimitCheck.allowed
                      THEN AccessCall("logAccess", FALSE, <<rateLimitCheck>>, Null,
                               <<AccessCheckResult(TRUE, FALSE, "Within free scan limit",
                                                   <<rateLimitCheck.scans_remaining>>)>>)
                      ELSE AccessCall("done", FALSE, <<rateLimitCheck>>, Null,
                               <<AccessCheckResult(FALSE, FALSE,
                                     "Rate limit exceeded. Hold tokens for unlimited access.",
                                     <<0>>)>>)]
    /\ UNCHANGED <<scoreVars, typoVars, platVars, request, github, pc, target, response,
                   repo_scans, tasks, gateVars, statements, fetched, deep_scans,
                   token_locks, poll, contentFetches, subchecks, sharedVulns>>

\* the select of logAccess is answered: existingLog, the statement to send
LogSelected ==
    /\ \E k \in DOMAIN clients :
           /\ clients[k].pc = "logAccess"
           /\ clients' = [clients EXCEPT
                  ![k].pc = "write",
                  ![k].existingLog =
                      <<logAccess(scan_access_log, request.walletAddress, request.clientIp,
                                  clients[k].hasTokenAccess, now)>>]
    /\ UNCHANGED <<scoreVars, typoVars, platVars, request, github, pc, target, response,
                   repo_scans, tasks, gateVars, statements, fetched, deep_scans,
                   token_locks, poll, contentFetches, subchecks, sharedVulns>>

\* the update or insert of logAccess is applied and checkAccess returns; an
\* update writes the scan_count that was read plus one
LogWritten ==
    /\ \E k \in DOMAIN clients :
           /\ clients[k].pc = "write"
           /\ LET statement == clients[k].existingLog[1] IN
              /\ scan_access_log' =
                     IF statement.op = "update" THEN logged(scan_access_log, statement)
                     ELSE Append(scan_access_log,
                                 [statement.row EXCEPT !.id = Len(scan_access_log) + 1])
              /\ statements' = Append(statements, statement)
           /\ clients' = [clients EXCEPT ![k].pc = "done"]
    /\ UNCHANGED <<scoreVars, typoVars, platVars, request, github, pc, target, response,
                   repo_scans, tasks, token_gate_config, accessCheck, chain, fetched,
                   deep_scans, token_locks, poll, contentFetches, subchecks, sharedVulns>>

\* the clients of the model: without a wallet, with a wallet that holds no
\* tokens, and a token holder
GateClients == {
    ScanRequest(<<"https://github.com/acme/widget">>, Null, Null, ClientIp),
    ScanRequest(<<"https://github.com/acme/widget">>, <<"0xABC1">>, <<0>>, ClientIp),
    ScanRequest(<<"https://github.com/acme/widget">>, <<Holder>>, <<1000>>, ClientIp) }

FreeScanQuotas == {1, 2, 3}

\* the gate with rate limiting, no whitelist, and the log of an earlier day
InitGate ==
    /\ IdleTypo /\ IdlePlatform /\ IdleDeepScans
    /\ variant = "A" /\ data = Null /\ allVulnerabilities = << >>
    /\ vulnSummary = Null /\ quality = Null /\ now = Clock1 /\ results = << >>
    /\ request \in GateClients
    /\ \E n \in FreeScanQuotas :
           token_gate_config = <<[Gate EXCEPT !.free_scans_per_day = n,
                                              !.whitelist_addresses = << >>]>>
    /\ scan_access_log \in
           {<< >>,
            <<AccessLog(1, request.walletAddress, request.clientIp, FALSE, 3, Clock1 - 1)>>}
    /\ chain = Funded /\ accessCheck = Null
    /\ github = Null /\ pc = "idle" /\ target = Null /\ response = Null
    /\ repo_scans = << >> /\ tasks = Null /\ statements = << >> /\ fetched = {}
    /\ clients = << >> /\ token_locks = << >> /\ poll = Null
    /\ contentFetches = Null /\ subchecks = Null /\ sharedVulns = << >>

NextGateInTurn ==
    ArriveAfterAnswer \/ ConfigRead \/ RateLimitChecked \/ LogSelected \/ LogWritten

SpecGateInTurn == InitGate /\ [][NextGateInTurn]_vars

NextGate == Arrive \/ ConfigRead \/ RateLimitChecked \/ LogSelected \/ LogWritten

SpecGate == InitGate /\ [][NextGate]_vars

FreeTier == ~isTokenHolder(token_gate_config[1], request.walletAddress, request.tokenBalance)

FreeScansPerDay == token_gate_config[1].free_scans_per_day

-----------------------------------------------------------------------------
(* Token-holder access and the balance on chain.                            *)

\* verifyTokenBalance: balanceOf(walletAddress) read by an eth_call.  The
\* handlers import it and never call it.
verifyTokenBalance(balances, walletAddress) ==
    IF walletAddress \in DOMAIN balances THEN balances[walletAddress] ELSE 0

\* C24: token-holder access is granted only when the balance of the wallet
\* read on chain is at least minimum_balance; a balance stated by the client
\* does not obtain it
C24_HolderAccessNeedsChainBalance ==
    (accessCheck # Null /\ accessCheck[1].reason = "Valid token holder") =>
        verifyTokenBalance(chain, request.walletAddress[1])
            >= token_gate_config[1].minimum_balance

-----------------------------------------------------------------------------
(* TokenLockService: the rows of token_locks.  Time is counted in days.     *)

MaxLocks == 2

MaxLockDays == 3

LockWallets == {"0xD00D", "0xABC1"}

LockDurations == {1, 2}

TokenLock(id, wallet_address, token_amount, lock_end_date, lock_duration_days, status, updated_at) ==
    [id |-> id, wallet_address |-> wallet_address, token_amount |-> token_amount,
     lock_end_date |-> lock_end_date, lock_duration_days |-> lock_duration_days,
     status |-> status, updated_at |-> updated_at]

isLockExpired(lock, clock) == lock.lock_end_date < clock

\* createLock: an active lock that ends lock_duration_days from now
CreateLock ==
    /\ Len(token_locks) < MaxLocks
    /\ \E wallet_address \in LockWallets, lock_duration_days \in LockDurations :
           token_locks' = Append(token_locks,
               TokenLock(Len(token_locks) + 1, wallet_address, 100,
                         now + lock_duration_days, lock_duration_days, "active", now))
    /\ UNCHANGED <<scoreVars, typoVars, platVars, scanVars, deep_scans, clients, poll,
                   contentFetches, subchecks, sharedVulns>>

\* withdrawLock: update ... set status = 'withdrawn' where id = lockId and
\* wallet_address = walletAddress
withdrawLock(locks, lockId, walletAddress, clock) ==
    [i \in DOMAIN locks |->
        IF locks[i].id = lockId /\ locks[i].wallet_address = walletAddress
        THEN [locks[i] EXCEPT !.status = "withdrawn", !.updated_at = clock]
        ELSE locks[i]]

WithdrawLock ==
    /\ \E lockId \in 1..MaxLocks, walletAddress \in LockWallets :
           /\ token_locks' = withdrawLock(token_locks, lockId, walletAddress, now)
           /\ token_locks' # token_locks
    /\ UNCHANGED <<scoreVars, typoVars, platVars, scanVars, deep_scans, clients, poll,
                   contentFetches, subchecks, sharedVulns>>

\* extendLock: the lock is read, its owner compared, and end date and
\* duration are moved by additionalDays
ExtendLock ==
    /\ \E lockId \in DOMAIN token_locks, walletAddress \in LockWallets :
           LET lock == token_locks[lockId] IN
           /\ lock.wallet_address = walletAddress
           /\ lock.lock_duration_days < MaxLockDays
           /\ token_locks' = [token_locks EXCEPT
                  ![lockId].lock_end_date = lock.lock_end_date + 1,
                  ![lockId].lock_duration_days = lock.lock_duration_days + 1,
                  ![lockId].updated_at = now]
    /\ UNCHANGED <<scoreVars, typoVars, platVars, scanVars, deep_scans, clients, poll,
                   contentFetches, subchecks, sharedVulns>>

\* a day passes
DayPasses ==
    /\ now < Clock1 + MaxLockDays
    /\ now' = now + 1
    /\ UNCHANGED <<variant, data, allVulnerabilities, vulnSummary, quality, results,
                   typoVars, platVars, scanVars, deep_scans, extraVars>>

InitLocks ==
    /\ IdleScore /\ IdleTypo /\ IdlePlatform /\ IdleScan /\ IdleDeepScans
    /\ clients = << >> /\ token_locks = << >> /\ poll = Null
    /\ contentFetches = Null /\ subchecks = Null /\ sharedVulns = << >>

NextLocks == CreateLock \/ WithdrawLock \/ ExtendLock \/ DayPasses

SpecLocks == InitLocks /\ [][NextLocks]_vars

\* C25: withdrawLock changes the status of a lock to 'withdrawn' only if the
\* end date of the lock has passed; otherwise the lock is unchanged
C25_WithdrawOnlyAfterEnd ==
    [][\A i \in DOMAIN token_locks :
          (i \in DOMAIN token_locks' /\ token_locks[i].status # "withdrawn"
             /\ token_locks'[i].status = "withdrawn")
          => isLockExpired(token_locks[i], now)]_vars

-----------------------------------------------------------------------------
(* Free scans under concurrent requests, failed scans, and scans_remaining. *)

AllowedFree ==
    {k \in DOMAIN clients :
        /\ Settled(clients[k])
        /\ clients[k].result[1].allowed
        /\ ~clients[k].result[1].has_token_access}

\* C26: whatever the interleaving of the requests of one free-tier identifier
\* on one day, the number of requests allowed under the rate limit never
\* exceeds free_scans_per_day
C26_AllowedNeverExceedsQuota ==
    FreeTier => Cardinality(AllowedFree) <= FreeScansPerDay

\* C28: the scans_remaining of an allowed free-tier scan is free_scans_per_day
\* minus the scans used that day, the current one included: the number of
\* further free scans the client will still be allowed
C28_ScansRemainingCountsCurrent ==
    FreeTier =>
        \A k \in DOMAIN clients :
            (Settled(clients[k]) /\ clients[k].result[1].allowed) =>
                clients[k].result[1].scans_remaining = <<FreeScansPerDay - k>>

FreeScanCounted(st) ==
    st.table = "scan_access_log" /\ ~st.row.has_token_access

\* C27: a scan request that ends in an error after the access check (invalid
\* URL, repository not found, internal error, failed persistence) does not use
\* up a free scan: the free-scan count of the access log increases only for
\* requests that return a scan result
C27_FailedScanNotCounted ==
    (pc = "done" /\ response # Null /\ response[1].status \in {400, 404, 500}) =>
        Len(SelectSeq(statements, FreeScanCounted)) = 0

-----------------------------------------------------------------------------
(* pollScanStatus of the extension popup: a timer that sends                *)
(* CHECK_SCAN_STATUS every two seconds, and the answers that come back.     *)

maxAttempts == 60

\* ticks the model follows the timer beyond maxAttempts
MaxOvershoot == 2

\* what the await in the callback yields: the status field of the answer of
\* checkScanStatus (absent when it reports success: false), or a rejection
PollAnswers == {"completed", "failed", "pending", "undefined", "rejected"}

Poll(attempts, sent, awaited, interval, view) ==
    [attempts |-> attempts, sent |-> sent, awaited |-> awaited, interval |-> interval,
     view |-> view]

\* pollScanStatus: setInterval
PollScanStatus ==
    /\ poll = Null
    /\ poll' = <<Poll(0, 0, 0, "set", "scanning")>>
    /\ UNCHANGED <<scoreVars, typoVars, platVars, scanVars, deep_scans, clients,
                   token_locks, contentFetches, subchecks, sharedVulns>>

\* the timer fires: attempts++ and the message is sent; the callback waits
IntervalFires ==
    /\ poll # Null /\ poll[1].interval = "set"
    /\ poll[1].sent < maxAttempts + MaxOvershoot
    /\ poll' = <<[poll[1] EXCEPT !.attempts = @ + 1, !.sent = @ + 1, !.awaited = @ + 1]>>
    /\ UNCHANGED <<scoreVars, typoVars, platVars, scanVars, deep_scans, clients,
                   token_locks, contentFetches, subchecks, sharedVulns>>

\* an answer arrives and a waiting callback goes on
AnswerArrives ==
    /\ poll # Null /\ poll[1].awaited > 0
    /\ \E answer \in PollAnswers :
           poll' = <<[poll[1] EXCEPT
               !.awaited = @ - 1,
               !.interval =
                   IF \/ answer \in {"completed", "failed", "rejected"}
                      \/ poll[1].attempts >= maxAttempts
                   THEN "cleared" ELSE @,
               !.view =
                   IF answer = "rejected" THEN "error"
                   ELSE IF answer = "completed" THEN "results"
                   ELSE IF answer = "failed" \/ poll[1].attempts >= maxAttempts
                   THEN "error" ELSE @]>>
    /\ UNCHANGED <<scoreVars, typoVars, platVars, scanVars, deep_scans, clients,
                   token_locks, contentFetches, subchecks, sharedVulns>>

InitPoll ==
    /\ IdleScore /\ IdleTypo /\ IdlePlatform /\ IdleScan /\ IdleDeepScans /\ IdleExtra

NextPoll == PollScanStatus \/ IntervalFires \/ AnswerArrives

SpecPoll == InitPoll /\ [][NextPoll]_vars

\* C29: after a scan is initiated from the popup the polling stops: at most 60
\* status-check messages are sent, whatever the latency or the content of the
\* answers
C29_AtMostSixtyStatusChecks ==
    poll # Null => poll[1].sent <= maxAttempts

-----------------------------------------------------------------------------
(* The scanners that run their sub-checks under Promise.all on one shared   *)
(* array: every push is a step, and the pushes of the sub-checks interleave *)
(* in every order that keeps the order of each sub-check.                   *)

\* what the four sub-checks of an analyzer push, in the order of Promise.all
subchecksOf(analyzer, repo, contents, files, main, master) ==
    CASE analyzer = "supplyChain" ->
             <<checkTyposquatting(
                   [listed |-> \E i \in DOMAIN contents : contents[i].name = "package.json",
                    content |-> fetchFileContent(files, "package.json")]),
               checkDeprecatedPackages(contents, files),
               checkLicenseConflicts(contents, files),
               checkDependencyDepth(contents, files)>>
      [] analyzer = "configuration" ->
             <<scanEnvFiles(contents, files), scanDockerfiles(contents, files),
               scanCICD(contents, files), scanWebServerConfigs(contents, files)>>
      [] analyzer = "githubSecurity" ->
             <<checkBranchProtection(main, master).findings, << >>,
               checkGitHubActions(contents, files), checkRepoSettings(repo)>>

SubcheckListings == {
    <<File(".env", "file", 120), File("Dockerfile", "file", 400),
      File(".gitlab-ci.yml", "file", 350)>>,
    <<File("Dockerfile", "file", 400), File("nginx.conf", "file", 500), WorkflowCi>>,
    <<File("package.json", "file", 900), File("requirements.txt", "file", 60),
      File(".env", "file", 120), WorkflowCi>> }

SharingAnalyzers == {"supplyChain", "configuration", "githubSecurity"}

\* vulnerabilities.push(finding) of a sub-check that puts its finding in
\* place of the array
pushInPlaceOfArray(array, finding) == <<finding>>

\* vulnerabilities.push(finding)
push(array, finding) == Append(array, finding)

\* scanSupplyChain, scanConfigurationVulnerabilities, scanGitHubSecurity: the
\* empty array is created and the four sub-checks are called
StartSubchecks ==
    /\ subchecks = Null
    /\ \E analyzer \in SharingAnalyzers, contents \in SubcheckListings, b \in BranchCases :
           subchecks' = <<[analyzer |-> analyzer, contents |-> contents, branch |-> b,
                           pending |-> subchecksOf(analyzer, ScanRepo, contents, ScanFiles,
                                                   b.main, b.master),
                           rejected |-> /\ analyzer = "githubSecurity"
                                        /\ checkBranchProtection(b.main, b.master).rejected]>>
    /\ sharedVulns' = << >>
    /\ UNCHANGED <<scoreVars, typoVars, platVars, scanVars, deep_scans, clients,
                   token_locks, poll, contentFetches>>

\* a sub-check pushes its next finding
SubcheckPushes ==
    /\ subchecks # Null
    /\ \E k \in DOMAIN subchecks[1].pending :
           /\ subchecks[1].pending[k] # << >>
           /\ sharedVulns' = push(sharedVulns, Head(subchecks[1].pending[k]))
           /\ subchecks' = <<[subchecks[1] EXCEPT !.pending[k] = Tail(@)]>>
    /\ UNCHANGED <<scoreVars, typoVars, platVars, scanVars, deep_scans, clients,
                   token_locks, poll, contentFetches>>

InitSubchecks ==
    /\ IdleScore /\ IdleTypo /\ IdlePlatform /\ IdleScan /\ IdleDeepScans /\ IdleExtra

NextSubchecks == StartSubchecks \/ SubcheckPushes

SpecSubchecks == InitSubchecks /\ [][NextSubchecks]_vars

\* Promise.all has resolved and the analyzer returns the array
SubchecksReturned ==
    /\ subchecks # Null /\ ~subchecks[1].rejected
    /\ \A k \in DOMAIN subchecks[1].pending : subchecks[1].pending[k] = << >>

multisetOf(array) ==
    [finding \in {array[i] : i \in DOMAIN array} |->
        Cardinality({i \in DOMAIN array : array[i] = finding})]

\* the findings of the analyzer when the sub-checks run one after another
InSequence ==
    LET s == subchecks[1] IN
    CASE s.analyzer = "supplyChain" -> scanSupplyChain(s.contents, ScanFiles)
      [] s.analyzer = "configuration" -> scanConfigurationVulnerabilities(s.contents, ScanFiles)
      [] s.analyzer = "githubSecurity" ->
             scanGitHubSecurity(ScanRepo, s.contents, ScanFiles,
                                s.branch.main, s.branch.master).findings

\* C30: an analyzer that runs its sub-checks concurrently over one shared
\* array returns the same multiset of findings for every interleaving of the
\* sub-checks; only the order of the findings can differ
C30_SameFindingsForEveryInterleaving ==
    SubchecksReturned => multisetOf(sharedVulns) = multisetOf(InSequence)

\* the configuration scanner has returned findings of three sub-checks in an
\* order in which a sub-check called later pushed first
C30_Witness ==
    /\ SubchecksReturned /\ subchecks[1].analyzer = "configuration"
    /\ Len(sharedVulns) >= 5
    /\ sharedVulns # InSequence
    /\ sharedVulns[1] = scanCICD(subchecks[1].contents, ScanFiles)[1]

=============================================================================
